---- MODULE Spec2Model ----
(***************************************************************************)
(* Model of the RootSense Node.js SDK delivery pipeline.                   *)
(*                                                                         *)
(* BatchSender (src/src/transport/batch-sender.ts): the pending-event      *)
(* buffer, the periodic flush timer, the single-flight flush coroutine,    *)
(* chunking, and the HTTP delivery-with-retry loop.  Node.js runs the      *)
(* code on one thread: a handler runs from one suspension point (await)    *)
(* to the next without interleaving, so every action below is the code     *)
(* between two awaits.                                                     *)
(***************************************************************************)
EXTENDS Integers, Sequences, FiniteSets, TLC

\* ------------------------------------------------------------------ bounds
\* number of events the host hands to addEvent in one run
MaxEvents == 2
\* number of flush coroutines that get past the guard in one run
MaxFlushes == 2
\* largest number of labelled samples a metrics snapshot returns
MaxMetricValues == 1

\* ----------------------------------------------------- configuration values
\* config.maxBufferSize (default 1000), scaled down
maxBufferSize == 1
\* config.batchSize (default 100), scaled down
batchSize == 2
\* config.retryAttempts (default 3), scaled down
retryAttempts == 2
\* config.retryDelay in ms (the default)
retryDelay == 1000

VARIABLES
    enableMetrics,  \* config.enableMetrics
    buffer,         \* BatchSender.buffer: event ids, host events 1, 2, ...
                    \* and metric events made by flush -1, -2, ...
    isFlushing,     \* BatchSender.isFlushing
    flushTimer,     \* TRUE while the setInterval timer is armed
    tasks,          \* the flush() coroutines that got past the guard, by
                    \* number; each holds the buffer length it found (held)
                    \* and the log of its sendWithRetry calls
    events,         \* per event accepted by addEvent: the flushes in progress
                    \* when addEvent was called (awaiting metrics: pre, past
                    \* their snapshot: post), the flushes that took it, its POSTs,
                    \* whether the sendWithRetry call for its chunk returned
    failures,       \* number of attempts so far that did not end in a 2xx
    shutdown,       \* the shutdown() call and the promise it returned
    sdk,            \* the module-level sdkInstance of the facade module, what
                    \* the RootSenseSDK constructors have built so far, and
                    \* the latest init() or facade call with its outcome
    pii,            \* a value handed to the PII sanitizer with the blocked
                    \* field names, and what the sanitizer and the error
                    \* tracker made of it
    crumbs,         \* ErrorTracker.breadcrumbs, the breadcrumb objects, and
                    \* the arrays handed out by captureError (in the event)
                    \* and by getBreadcrumbs (to the caller)
    ws,             \* the WebSocketClient: its fields, the sockets it made,
                    \* and the messages offered to it and put on the wire
    fp,             \* calls of generateFingerprint and a captured error
    signals,        \* the sendSuccessSignal() calls: their POSTs and promises
    captures,       \* the ErrorTracker.captureError() calls and how each ended
    run             \* one flush() under a config as given: its chunkArray loop and its send loop

\* the variables of the BatchSender and those of the other components
senderVars == <<enableMetrics, buffer, isFlushing, flushTimer, tasks, events,
                failures, shutdown>>
others == <<sdk, pii, crumbs, ws, fp, signals, captures, run>>

vars == <<enableMetrics, buffer, isFlushing, flushTimer, tasks, events,
          failures, shutdown, sdk, pii, crumbs, ws, fp, signals, captures, run>>

\* number of fetch() attempts in one run that do not end in a 2xx response:
\* enough to have one chunk rejected and to exhaust the attempts of the next
MaxFailures == retryAttempts + 1

\* outcomes of one fetch() attempt: a response of the given status class
\* (for 4xx, with the body text read or the body read failing), or the
\* fetch promise rejecting, which is what a network error and the
\* AbortSignal timeout both do
Responses == {"2xx", "4xx", "4xx-bodyfail", "5xx"}
Rejections == {"neterr-or-timeout"}
Outcomes == Responses \cup Rejections

Range(s) == {s[i] : i \in DOMAIN s}

Min(a, b) == IF a < b THEN a ELSE b

RECURSIVE Pow2(_)
Pow2(n) == IF n = 0 THEN 1 ELSE 2 * Pow2(n - 1)

\* Array.prototype.slice(from, to) on 0-based indices
Slice(array, from, to) == SubSeq(array, from + 1, Min(to, Len(array)))

\* the loop test as `i + size <= array.length`: a short last chunk is left out
RECURSIVE chunkFromFullOnly(_, _, _)
chunkFromFullOnly(array, size, i) ==
    IF i + size <= Len(array)
    THEN <<Slice(array, i, i + size)>> \o chunkFromFullOnly(array, size, i + size)
    ELSE <<>>

\* chunks.unshift for chunks.push: the chunks come out last first
RECURSIVE chunkFromUnshift(_, _, _)
chunkFromUnshift(array, size, i) ==
    IF i < Len(array)
    THEN chunkFromUnshift(array, size, i + size) \o <<Slice(array, i, i + size)>>
    ELSE <<>>

\* chunkArray: for (i = 0; i < array.length; i += size) push(slice(i, i+size))
RECURSIVE chunkFrom(_, _, _)
chunkFrom(array, size, i) ==
    IF i < Len(array)
    THEN <<Slice(array, i, i + size)>> \o chunkFrom(array, size, i + size)
    ELSE <<>>

chunkArray(array, size) == chunkFrom(array, size, 0)

\* the part of the state that flush() and its callbacks read and write
Sender == [buffer |-> buffer, isFlushing |-> isFlushing, tasks |-> tasks,
           events |-> events, failures |-> failures]

\* the guard without the in-flight test
flushGuardNoFlag(S) == Len(S.buffer) = 0

\* the guard without the empty-buffer test
flushGuardNoEmpty(S) == S.isFlushing

\* flush(): `if (this.isFlushing || this.buffer.length === 0) return;`
flushGuard(S) == S.isFlushing \/ Len(S.buffer) = 0

\* the capacity test with > for >=
atCapacityStrict(buf) == Len(buf) > maxBufferSize

\* addEvent: `if (this.buffer.length >= this.config.maxBufferSize)`
atCapacity(buf) == Len(buf) >= maxBufferSize

\* the loop test with <= for <
loopContinuesInclusive(attempt) == attempt <= retryAttempts

\* sendWithRetry: `for (...; attempt < this.config.retryAttempts; ...)`
loopContinues(attempt) == attempt < retryAttempts

\* the wait test with <= for <: a wait after the last attempt too
waitsBeforeRetryInclusive(attempt) == attempt <= retryAttempts - 1

\* sendWithRetry: `if (attempt < this.config.retryAttempts - 1)` wait
waitsBeforeRetry(attempt) == attempt < retryAttempts - 1

\* sendWithRetry: `this.config.retryDelay * Math.pow(2, attempt)`
backoffDelay(attempt) == retryDelay * Pow2(attempt)

\* the success test left out: a 2xx response falls through to `< 500`
isSuccessMissing(o) == FALSE

\* sendWithRetry: `response.status >= 200 && response.status < 300`
isSuccess(o) == o = "2xx"

\* sendWithRetry: `response.status < 500`
isClientError(o) == o \in {"2xx", "4xx", "4xx-bodyfail"}

\* sendWithRetry: `await response.text()` inside the try block throws
bodyReadFails(o) == o = "4xx-bodyfail"

\* a catch block that logs and rethrows
flushCatchRethrow == "rejected"

\* flush(): `catch (error) { console.error(...) }` swallows the exception,
\* so the promise of the async function resolves
flushCatch == "resolved"

\* a flush that clears the buffer when it ends instead of up front
FinishClearing(S, t, how) ==
    [S EXCEPT !.isFlushing = FALSE, !.buffer = <<>>,
              !.tasks[t] = [@ EXCEPT !.pc = "done", !.settled = how]]

\* a flush that ends without its finally block
FinishKeepingGuard(S, t, how) ==
    [S EXCEPT !.tasks[t] = [@ EXCEPT !.pc = "done", !.settled = how]]

\* flush(): `finally { this.isFlushing = false; }`; the coroutine ends and
\* its promise settles
Finish(S, t, how) ==
    [S EXCEPT !.isFlushing = FALSE,
              !.tasks[t] = [@ EXCEPT !.pc = "done", !.settled = how]]

\* fetch(url, {method: "POST", body: JSON.stringify(data)}) for the chunk
\* the task is on: one more POST on the wire, carrying the chunk's events
IssuePost(S, t) ==
    LET i == S.tasks[t].bi
        body == S.tasks[t].log[i].body
    IN  [S EXCEPT !.tasks[t] = [@ EXCEPT !.pc = "post",
                                         !.log[i] = [@ EXCEPT !.posts = @ + 1]],
                  !.events = [e \in DOMAIN S.events |->
                                IF e \in Range(body)
                                THEN [S.events[e] EXCEPT !.posts = @ + 1]
                                ELSE S.events[e]]]

\* the chunk the task is on is finished: sendWithRetry returns
EndChunk(S, t, result) ==
    LET i == S.tasks[t].bi
        body == S.tasks[t].log[i].body
    IN  [S EXCEPT !.tasks[t] = [@ EXCEPT !.log[i] = [@ EXCEPT !.result = result]],
                  !.events = [e \in DOMAIN S.events |->
                                IF e \in Range(body)
                                THEN [S.events[e] EXCEPT !.sealed = TRUE]
                                ELSE S.events[e]]]

\* `for (const batch of batches) await this.sendBatch(batch)` from chunk i:
\* sendBatch -> sendWithRetry enters its loop with attempt = 0 and issues
\* the first POST; with no chunk left the try block ends normally
RECURSIVE SendFrom(_, _, _)
SendFrom(S, t, i) ==
    IF i > Len(S.tasks[t].batches)
    THEN Finish(S, t, "resolved")
    ELSE LET rec == [body |-> S.tasks[t].batches[i], posts |-> 0,
                     hist |-> <<>>, result |-> "inflight"]
             S1 == [S EXCEPT !.tasks[t] = [@ EXCEPT !.bi = i, !.attempt = 0,
                                                    !.log = Append(@, rec)]]
         IN  IF loopContinues(0)
             THEN IssuePost(S1, t)
             ELSE SendFrom(EndChunk(S1, t, "dropped"), t, i + 1)

\* the events record which flush took them
Taken(S, t, toSend) ==
    [e \in DOMAIN S.events |->
        IF e \in Range(toSend)
        THEN [S.events[e] EXCEPT !.snapBy = Append(@, t)]
        ELSE S.events[e]]

\* the snapshot without `this.buffer = []`
SnapshotAndSendNoClear(S, t) ==
    LET toSend == S.buffer
        S1 == [S EXCEPT !.events = Taken(S, t, toSend),
                        !.tasks[t] = [@ EXCEPT !.toSend = toSend,
                                               !.snapped = TRUE,
                                               !.batches = chunkArray(toSend, batchSize)]]
    IN  SendFrom(S1, t, 1)

\* flush(): `const toSend = [...this.buffer]; this.buffer = [];` then
\* chunkArray and the send loop up to its first await
SnapshotAndSend(S, t) ==
    LET toSend == S.buffer
        S1 == [S EXCEPT !.buffer = <<>>,
                        !.events = Taken(S, t, toSend),
                        !.tasks[t] = [@ EXCEPT !.toSend = toSend,
                                               !.snapped = TRUE,
                                               !.batches = chunkArray(toSend, batchSize)]]
    IN  SendFrom(S1, t, 1)

\* what the model keeps of a flush that has ended once a later flush starts:
\* how its promise settled and whether it took a snapshot
Archived(task) ==
    IF task.pc = "done"
    THEN [task EXCEPT !.byAdd = FALSE, !.held = 0, !.toSend = <<>>,
                      !.batches = <<>>,
                      !.bi = 0, !.attempt = 0, !.log = <<>>]
    ELSE task

\* a flush that empties the buffer before it asks for the metrics snapshot
flushClearingFirst(S, byAdd) ==
    IF flushGuard(S)
    THEN S
    ELSE LET t == Len(S.tasks) + 1
             task == [pc |-> "metrics", byAdd |-> byAdd, snapped |-> FALSE,
                      held |-> Len(S.buffer),
                      toSend |-> <<>>, batches |-> <<>>, bi |-> 0,
                      attempt |-> 0, delay |-> 0, log |-> <<>>,
                      settled |-> "pending"]
             S1 == [S EXCEPT !.isFlushing = TRUE,
                             !.tasks = Append([u \in DOMAIN S.tasks |->
                                                  Archived(S.tasks[u])], task)]
         IN  IF enableMetrics THEN [S1 EXCEPT !.buffer = <<>>]
             ELSE SnapshotAndSend(S1, t)

\* flush() called in state S, by addEvent or not, run up to its first await
flush(S, byAdd) ==
    IF flushGuard(S)
    THEN S
    ELSE LET t == Len(S.tasks) + 1
             task == [pc |-> "metrics", byAdd |-> byAdd, snapped |-> FALSE,
                      held |-> Len(S.buffer),
                      toSend |-> <<>>, batches |-> <<>>, bi |-> 0,
                      attempt |-> 0, delay |-> 0, log |-> <<>>,
                      settled |-> "pending"]
             S1 == [S EXCEPT !.isFlushing = TRUE,
                             !.tasks = Append([u \in DOMAIN S.tasks |->
                                                  Archived(S.tasks[u])], task)]
         IN  IF enableMetrics THEN S1 ELSE SnapshotAndSend(S1, t)

\* whether flush() called in state S gets past the guard
Starts(S) == ~flushGuard(S)

\* a model bound: no more than MaxFlushes coroutines per run
CanCall(S) == Starts(S) => Len(S.tasks) < MaxFlushes

\* a handler leaves the sender in state S
CommitSender(S) ==
    /\ buffer' = S.buffer
    /\ isFlushing' = S.isFlushing
    /\ tasks' = S.tasks
    /\ events' = S.events
    /\ failures' = S.failures

\* a handler of the sender leaves the sender in state S and touches nothing
\* outside the sender
Commit(S) ==
    /\ CommitSender(S)
    /\ UNCHANGED others

Active == {t \in DOMAIN tasks : tasks[t].pc # "done"}

\* no value has been handed to the sanitizer yet
NoValue == [stage |-> "none"]

\* `let sdkInstance: RootSenseSDK | null = null;` and nothing built yet
NoCall == [op |-> "none", hadInstance |-> FALSE, dsn |-> "none",
           apiKey |-> FALSE, envKey |-> FALSE, faults |-> {}, threwAt |-> "none",
           done |-> <<>>, error |-> "none", result |-> "none", instance |-> 0]

NothingBuilt == [metricsCollector |-> 0, batchSender |-> 0, flushTimer |-> 0,
                 websocketClient |-> 0, websocket |-> 0, errorTracker |-> 0,
                 autoInstrumentation |-> 0, handlers |-> 0]

NoConfig == [enableErrorTracking |-> FALSE, enableWebSocket |-> FALSE,
             enableMetrics |-> FALSE, enableAutoInstrumentation |-> FALSE]

\* an array nobody holds
NoArray == [ref |-> "none", list |-> <<>>]

\* `private breadcrumbs: Breadcrumb[] = [];`: no breadcrumb object exists,
\* no event has been built and getBreadcrumbs has not been called
NoCrumbs == [breadcrumbs |-> <<>>, heap |-> <<>>, since |-> <<>>,
             event |-> NoArray, returned |-> NoArray, last |-> "none"]

\* no WebSocketClient has been constructed
NoChannel == [built |-> FALSE]

\* the strings of the fingerprint inputs, as their characters
STR_Error == <<"E", "r", "r", "o", "r">>
STR_TypeError == <<"T", "y", "p", "e", "E", "r", "r", "o", "r">>
STR_Error_a == <<"E", "r", "r", "o", "r", ":", "a">>
STR_svc == <<"s", "v", "c">>
STR_a_svc == <<"a", ":", "s", "v", "c">>
STR_x == <<"/", "x">>
STR_svc_x == <<"s", "v", "c", ":", "/", "x">>
STR_unknown == <<"u", "n", "k", "n", "o", "w", "n">>
STR_a == <<"a">>

\* generateFingerprint has not been called and no error has been captured
\* by the tracker, whose config.serviceName is "svc"
NoFingerprint == [calls |-> <<>>, serviceName |-> STR_svc]

Init ==
    /\ enableMetrics \in BOOLEAN
    /\ buffer = <<>>
    /\ isFlushing = FALSE
    /\ flushTimer = TRUE
    /\ tasks = <<>>
    /\ events = <<>>
    /\ failures = 0
    /\ shutdown = [called |-> FALSE, busy |-> FALSE, task |-> 0, seen |-> 0]
    /\ sdk = [instance |-> 0, config |-> NoConfig, built |-> NothingBuilt,
              last |-> NoCall]
    /\ pii = NoValue
    /\ crumbs = NoCrumbs
    /\ ws = NoChannel
    /\ fp = NoFingerprint
    /\ signals = <<>>
    /\ captures = <<>>
    /\ run = [pc |-> "idle"]

\* addEvent(event) in state S: flush when the buffer is full, then push
addEvent(S) ==
    LET e == Len(S.events) + 1
        S1 == IF atCapacity(S.buffer) THEN flush(S, TRUE) ELSE S
        new == [pre |-> {t \in DOMAIN S.tasks : S.tasks[t].pc = "metrics"},
                post |-> {t \in DOMAIN S.tasks :
                            S.tasks[t].pc \in {"post", "backoff"}},
                snapBy |-> <<>>, posts |-> 0, sealed |-> FALSE]
    IN  [S1 EXCEPT !.buffer = Append(@, e), !.events = Append(@, new)]

\* the host (or a collector) calls addEvent(event)
AddEvent ==
    /\ Len(events) < MaxEvents
    /\ atCapacity(buffer) => CanCall(Sender)
    /\ Commit(addEvent(Sender))
    /\ UNCHANGED <<enableMetrics, flushTimer, shutdown>>

\* the setInterval callback: this.flush().catch(...)
TimerFire ==
    /\ flushTimer
    /\ CanCall(Sender)
    /\ Commit(flush(Sender, FALSE))
    /\ UNCHANGED <<enableMetrics, flushTimer, shutdown>>

\* the host calls flush() (RootSenseSDK.flush)
CallerFlush ==
    /\ CanCall(Sender)
    /\ Commit(flush(Sender, FALSE))
    /\ UNCHANGED <<enableMetrics, flushTimer, shutdown>>

\* shutdown(): clearInterval, then await this.flush()
Shutdown ==
    /\ ~shutdown.called
    /\ CanCall(Sender)
    /\ flushTimer' = FALSE
    /\ Commit(flush(Sender, FALSE))
    /\ shutdown' = [called |-> TRUE,
                    busy |-> isFlushing,
                    task |-> IF Starts(Sender) THEN Len(tasks) + 1 ELSE 0,
                    seen |-> Len(events)]
    /\ UNCHANGED <<enableMetrics>>

\* the metric events flush t makes from a snapshot of k labelled samples
MetricEvents(t, k) == [j \in 1..k |-> -((t - 1) * MaxMetricValues + j)]

\* `await this.metricsCollector.getMetricsAsJSON()` settles: it throws, or
\* returns k labelled samples, each pushed to the buffer as a metric event
MetricsDone(t) ==
    /\ tasks[t].pc = "metrics"
    /\ \/ Commit(Finish(Sender, t, flushCatch))
       \/ \E k \in 0..MaxMetricValues :
            Commit(SnapshotAndSend(
                     [Sender EXCEPT !.buffer = @ \o MetricEvents(t, k)], t))
    /\ UNCHANGED <<enableMetrics, flushTimer, shutdown>>

\* a sendWithRetry that throws once the attempts are used up, which ends
\* the flush in its catch block
AfterFailureAborting(S, t) ==
    LET a == S.tasks[t].attempt
    IN  IF waitsBeforeRetry(a)
        THEN [S EXCEPT !.tasks[t] = [@ EXCEPT !.pc = "backoff",
                                              !.delay = backoffDelay(a)]]
        ELSE LET S1 == [S EXCEPT !.tasks[t] = [@ EXCEPT !.attempt = a + 1]]
             IN  IF loopContinues(a + 1)
                 THEN IssuePost(S1, t)
                 ELSE Finish(EndChunk(S1, t, "dropped"), t, flushCatch)

\* the catch block of sendWithRetry after the failed attempt `attempt`:
\* wait if another attempt remains, else fall through to attempt++ and the
\* loop test
AfterFailure(S, t) ==
    LET a == S.tasks[t].attempt
    IN  IF waitsBeforeRetry(a)
        THEN [S EXCEPT !.tasks[t] = [@ EXCEPT !.pc = "backoff",
                                              !.delay = backoffDelay(a)]]
        ELSE LET S1 == [S EXCEPT !.tasks[t] = [@ EXCEPT !.attempt = a + 1]]
             IN  IF loopContinues(a + 1)
                 THEN IssuePost(S1, t)
                 ELSE SendFrom(EndChunk(S1, t, "dropped"), t, S.tasks[t].bi + 1)

\* the pending fetch() of task t settles with outcome o: the try block of
\* sendWithRetry from the response on
PostReply(t) ==
    /\ tasks[t].pc = "post"
    /\ \E o \in Outcomes :
         /\ o # "2xx" => failures < MaxFailures
         /\ LET S1 == [Sender EXCEPT
                         !.tasks[t] = [@ EXCEPT !.log[tasks[t].bi] =
                                          [@ EXCEPT !.hist = Append(@, o)]],
                         !.failures = IF o = "2xx" THEN @ ELSE @ + 1]
                next == tasks[t].bi + 1
            IN  Commit(IF o \in Rejections
                       THEN AfterFailure(S1, t)
                       ELSE IF isSuccess(o)
                       THEN SendFrom(EndChunk(S1, t, "delivered"), t, next)
                       ELSE IF isClientError(o) /\ ~bodyReadFails(o)
                       THEN SendFrom(EndChunk(S1, t, "rejected"), t, next)
                       ELSE AfterFailure(S1, t))
    /\ UNCHANGED <<enableMetrics, flushTimer, shutdown>>

\* the backoff setTimeout fires: attempt++, loop test, next fetch()
BackoffDone(t) ==
    /\ tasks[t].pc = "backoff"
    /\ LET a == tasks[t].attempt
           S1 == [Sender EXCEPT !.tasks[t] = [@ EXCEPT !.attempt = a + 1,
                                                       !.delay = 0]]
       IN  Commit(IF loopContinues(a + 1)
                  THEN IssuePost(S1, t)
                  ELSE SendFrom(EndChunk(S1, t, "dropped"), t, tasks[t].bi + 1))
    /\ UNCHANGED <<enableMetrics, flushTimer, shutdown>>

Next ==
    \/ AddEvent
    \/ TimerFire
    \/ CallerFlush
    \/ Shutdown
    \/ \E t \in DOMAIN tasks : MetricsDone(t)
    \/ \E t \in DOMAIN tasks : PostReply(t)
    \/ \E t \in DOMAIN tasks : BackoffDone(t)

Spec == Init /\ [][Next]_vars

\* ------------------------------------------------- the sender left running
\* The process keeps running: the flush() coroutines that have ended are
\* garbage, and so are the references the model keeps to them.  What stays
\* is the buffer and what was POSTed.  This lets a run start any number of
\* flushes.
Forget ==
    /\ tasks # <<>>
    /\ Active = {}
    /\ tasks' = <<>>
    /\ events' = [e \in DOMAIN events |->
                    [events[e] EXCEPT !.pre = {}, !.post = {}, !.snapBy = <<>>]]
    /\ shutdown' = [shutdown EXCEPT !.task = 0]
    /\ UNCHANGED <<enableMetrics, buffer, isFlushing, flushTimer, failures>>
    /\ UNCHANGED others

LiveNext == Next \/ Forget

\* setInterval keeps calling back while the timer is armed; a pending
\* getMetricsAsJSON() settles; a pending fetch() settles (AbortSignal.timeout
\* bounds it); a pending setTimeout fires
Fairness ==
    /\ WF_vars(TimerFire)
    /\ WF_vars(\E t \in DOMAIN tasks : MetricsDone(t))
    /\ WF_vars(\E t \in DOMAIN tasks : PostReply(t))
    /\ WF_vars(\E t \in DOMAIN tasks : BackoffDone(t))
    /\ WF_vars(Forget)

LiveSpec == Init /\ [][LiveNext]_vars /\ Fairness

\* ---------------------------------------------- the flush calls by themselves
\* Every flush() call, whoever makes it (the timer, the host, shutdown), is
\* the call CallerFlush makes, or the one addEvent makes on a full buffer.
FlushNext ==
    \/ AddEvent
    \/ CallerFlush
    \/ \E t \in DOMAIN tasks : MetricsDone(t)
    \/ \E t \in DOMAIN tasks : PostReply(t)
    \/ \E t \in DOMAIN tasks : BackoffDone(t)

\* a pending getMetricsAsJSON() settles; a pending fetch() settles
\* (AbortSignal.timeout bounds it); a pending setTimeout fires
FlushFairness ==
    /\ WF_vars(\E t \in DOMAIN tasks : MetricsDone(t))
    /\ WF_vars(\E t \in DOMAIN tasks : PostReply(t))
    /\ WF_vars(\E t \in DOMAIN tasks : BackoffDone(t))

FlushSpec == Init /\ [][FlushNext]_vars /\ FlushFairness

\* ---------------------------------- RootSenseSDK: init() and the facade
\* (src/unnamed/part_002, second version; normalizeConfig of utils/config.ts)

\* what a config may hold: a dsn (absent or empty, well-formed, or not
\* matching the DSN pattern), an apiKey and a projectId (given non-empty or
\* not), and the feature flags (absent, or set against their default)
DsnForms == {"none", "valid", "malformed"}
Configs == [dsn : DsnForms, apiKey : BOOLEAN, projectId : BOOLEAN,
            enableErrorTracking : {"unset", "false"},
            enableWebSocket : {"unset", "true"},
            enableMetrics : {"unset", "false"},
            enableAutoInstrumentation : {"unset", "false"}]

\* process.env: whether each variable is set to a non-empty string
Envs == [ROOTSENSE_API_KEY : BOOLEAN, ROOTSENSE_PROJECT_ID : BOOLEAN]

\* `{ ...DEFAULT_CONFIG, ...config }` for one flag
resolve(flag, default) == IF flag = "unset" THEN default ELSE flag = "true"

\* parseDSN: the pattern /^https?:\/\/([^@]+)@(.+)$/ matches or the call throws
parseDSN(dsn) ==
    IF dsn = "valid" THEN [error |-> "none", apiKey |-> TRUE]
    ELSE [error |-> "Invalid DSN format", apiKey |-> FALSE]

\* normalizeConfig(config): the error it throws ("none" when it returns) and
\* the flags of the config it returns
normalizeConfig(config, env) ==
    LET parsed == IF config.dsn # "none" THEN parseDSN(config.dsn)
                  ELSE [error |-> "none",
                        apiKey |-> config.apiKey \/ env.ROOTSENSE_API_KEY]
        projectId == config.projectId \/ env.ROOTSENSE_PROJECT_ID
    IN  [error |-> IF parsed.error # "none" THEN parsed.error
                   ELSE IF ~parsed.apiKey THEN "API key is required"
                   ELSE IF ~projectId THEN "Project ID is required"
                   ELSE "none",
         config |-> [enableErrorTracking |->
                         resolve(config.enableErrorTracking, TRUE),
                     enableWebSocket |-> resolve(config.enableWebSocket, FALSE),
                     enableMetrics |-> resolve(config.enableMetrics, TRUE),
                     enableAutoInstrumentation |->
                         resolve(config.enableAutoInstrumentation, TRUE)]]

\* the constructor of RootSenseSDK past normalizeConfig: a MetricsCollector,
\* a BatchSender (with its buffer and its flush timer), a WebSocketClient
\* (connecting when enabled), an ErrorTracker, the auto-instrumentation when
\* enabled and available, and two process-level handlers when error
\* tracking is enabled
construct(built, config, autoOk) ==
    [metricsCollector |-> built.metricsCollector + 1,
     batchSender |-> built.batchSender + 1,
     flushTimer |-> built.flushTimer + 1,
     websocketClient |-> built.websocketClient + 1,
     websocket |-> built.websocket + (IF config.enableWebSocket THEN 1 ELSE 0),
     errorTracker |-> built.errorTracker + 1,
     autoInstrumentation |-> built.autoInstrumentation +
         (IF config.enableAutoInstrumentation /\ autoOk THEN 1 ELSE 0),
     handlers |-> built.handlers +
         (IF config.enableErrorTracking THEN 2 ELSE 0)]

\* init without its guard
initGuardMissing(s) == FALSE

\* init: `if (sdkInstance)`
initGuard(s) == s.instance # 0

\* init(config) called in state s of the module
init(s, config, env, autoOk) ==
    LET call == [NoCall EXCEPT !.op = "init",
                               !.hadInstance = s.instance # 0,
                               !.dsn = config.dsn,
                               !.apiKey = config.apiKey,
                               !.envKey = env.ROOTSENSE_API_KEY]
        n == normalizeConfig(config, env)
    IN  IF initGuard(s)
        THEN [s EXCEPT !.last = [call EXCEPT !.result = "returned",
                                             !.instance = s.instance]]
        ELSE IF n.error # "none"
        THEN [s EXCEPT !.last = [call EXCEPT !.result = "raised",
                                             !.error = n.error]]
        ELSE LET id == s.built.batchSender + 1
             IN  [instance |-> id,
                  config |-> n.config,
                  built |-> construct(s.built, n.config, autoOk),
                  last |-> [call EXCEPT !.result = "returned",
                                        !.instance = id]]

InitCall ==
    /\ \E config \in Configs, env \in Envs, autoOk \in BOOLEAN :
         sdk' = init(sdk, config, env, autoOk)
    /\ UNCHANGED <<senderVars, pii, crumbs, ws, fp, signals, captures, run>>

\* the facade operations behind a try block, and the HTTP status codes
\* recordRequest is called with
FacadeOps == {"captureError", "recordRequest", "addBreadcrumb"}
StatusCodes == {200, 404, 500}

\* a facade without the early returns
facadeGuardOff(op, config) == FALSE

\* the early return before the try block
facadeGuard(op, config) ==
    CASE op = "captureError" -> ~config.enableErrorTracking
      [] op = "recordRequest" -> ~config.enableMetrics
      [] op = "addBreadcrumb" -> FALSE

\* the calls the try block makes, in order
tryBody(op, config, statusCode) ==
    CASE op = "captureError" ->
             <<"errorTracker.captureError", "batchSender.addError">>
             \o (IF config.enableWebSocket
                 THEN <<"websocketClient.sendError">> ELSE <<>>)
      [] op = "recordRequest" ->
             <<"metricsCollector.recordRequest">>
             \o (IF statusCode >= 400
                 THEN <<"metricsCollector.recordError">> ELSE <<>>)
      [] op = "addBreadcrumb" -> <<"errorTracker.addBreadcrumb">>

\* index of the first call of body that throws, Len(body) + 1 if none does
RECURSIVE firstThrow(_, _, _)
firstThrow(body, faults, i) ==
    IF i > Len(body) \/ body[i] \in faults THEN i
    ELSE firstThrow(body, faults, i + 1)

\* a catch block that rethrows to the host
facadeCatchRethrow == "raised"

\* `catch (err) { console.error(...) }`: the call returns normally
facadeCatch == "returned"

\* a facade operation called on the instance, with the calls that throw
facade(s, op, statusCode, faults) ==
    LET body == IF facadeGuard(op, s.config) THEN <<>>
                ELSE tryBody(op, s.config, statusCode)
        k == firstThrow(body, faults, 1)
        threw == k <= Len(body)
    IN  [s EXCEPT !.last =
            [NoCall EXCEPT !.op = op,
                           !.hadInstance = TRUE,
                           !.faults = faults,
                           !.done = SubSeq(body, 1, k - 1),
                           !.threwAt = IF threw THEN body[k] ELSE "none",
                           !.result = IF threw THEN facadeCatch ELSE "returned",
                           !.instance = s.instance]]

FacadeCall ==
    /\ sdk.instance # 0
    /\ \E op \in FacadeOps, statusCode \in StatusCodes :
         \E faults \in SUBSET Range(tryBody(op, sdk.config, statusCode)) :
            sdk' = facade(sdk, op, statusCode, faults)
    /\ UNCHANGED <<senderVars, pii, crumbs, ws, fp, signals, captures, run>>

SdkNext == InitCall \/ FacadeCall

SdkSpec == Init /\ [][SdkNext]_vars

\* ------------------------------------------- PII sanitizer (utils/pii)
\* (src/unnamed/part_003) and ErrorTracker.sanitizeContext.  A string is the
\* sequence of its characters, so that the patterns, toLowerCase and
\* includes are computed on the characters.

\* nesting depth of the values handed to the sanitizer
MaxDepth == 2

DigitChars == <<"0", "1", "2", "3", "4", "5", "6", "7", "8", "9">>
Digits == Range(DigitChars)

\* the characters \s matches, of those the strings below use
Whitespace == {" "}

UpperLetters ==
    <<"A", "B", "C", "D", "E", "F", "G", "H", "I", "J", "K", "L", "M", "N",
      "O", "P", "Q", "R", "S", "T", "U", "V", "W", "X", "Y", "Z">>
LowerLetters ==
    <<"a", "b", "c", "d", "e", "f", "g", "h", "i", "j", "k", "l", "m", "n",
      "o", "p", "q", "r", "s", "t", "u", "v", "w", "x", "y", "z">>

\* String.prototype.toLowerCase
lowerChar(c) ==
    IF \E i \in DOMAIN UpperLetters : UpperLetters[i] = c
    THEN LowerLetters[CHOOSE i \in DOMAIN UpperLetters : UpperLetters[i] = c]
    ELSE c

toLowerCase(str) == [i \in DOMAIN str |-> lowerChar(str[i])]

\* String.prototype.includes
includes(str, sub) ==
    \E i \in 0..(Len(str) - Len(sub)) : SubSeq(str, i + 1, i + Len(sub)) = sub

\* [^\s@]+ matches the characters from..to of str
isRun(str, from, to) ==
    /\ from <= to
    /\ \A i \in from..to : str[i] \notin (Whitespace \cup {"@"})

\* /^[^\s@]+@[^\s@]+\.[^\s@]+$/.test(str)
isEmail(str) ==
    \E i, j \in DOMAIN str :
        /\ i < j
        /\ str[i] = "@"
        /\ str[j] = "."
        /\ isRun(str, 1, i - 1)
        /\ isRun(str, i + 1, j - 1)
        /\ isRun(str, j + 1, Len(str))

\* value.replace(/\s/g, '')
stripWhitespace(str) == SelectSeq(str, LAMBDA c : c \notin Whitespace)

\* str from position i on is digit groups of the given lengths, with at most
\* one character of seps between two groups, and nothing else
RECURSIVE matchGroups(_, _, _, _)
matchGroups(str, i, groups, seps) ==
    LET n == Head(groups)
    IN  /\ i + n - 1 <= Len(str)
        /\ \A k \in i..(i + n - 1) : str[k] \in Digits
        /\ IF Len(groups) = 1
           THEN i + n = Len(str) + 1
           ELSE \/ matchGroups(str, i + n, Tail(groups), seps)
                \/ /\ i + n <= Len(str)
                   /\ str[i + n] \in seps
                   /\ matchGroups(str, i + n + 1, Tail(groups), seps)

\* /^\d{4}[\s-]?\d{4}[\s-]?\d{4}[\s-]?\d{4}$/.test(value.replace(/\s/g, ''))
isCard(str) ==
    matchGroups(stripWhitespace(str), 1, <<4, 4, 4, 4>>, Whitespace \cup {"-"})

\* /^\d{3}-?\d{2}-?\d{4}$/.test(value)
isSSN(str) == matchGroups(str, 1, <<3, 2, 4>>, {"-"})

\* the redaction markers
REDACTED == <<"[", "R", "E", "D", "A", "C", "T", "E", "D", "]">>
REDACTED_EMAIL ==
    <<"[", "R", "E", "D", "A", "C", "T", "E", "D", "_", "E", "M", "A", "I",
      "L", "]">>
\* a card marker that reads like an address
REDACTED_CARD_AS_ADDRESS ==
    <<"c", "a", "r", "d", "@", "r", "e", "d", "a", "c", "t", "e", "d", ".",
      "i", "n", "v", "a", "l", "i", "d">>
REDACTED_CARD ==
    <<"[", "R", "E", "D", "A", "C", "T", "E", "D", "_", "C", "A", "R", "D",
      "]">>
REDACTED_SSN ==
    <<"[", "R", "E", "D", "A", "C", "T", "E", "D", "_", "S", "S", "N", "]">>

\* JavaScript values: null, numbers, booleans, strings, arrays, and objects
\* as their entries in insertion order
Null == [t |-> "null"]
Num(n) == [t |-> "number", n |-> n]
Bool(b) == [t |-> "boolean", b |-> b]
Str(str) == [t |-> "string", s |-> str]
Arr(items) == [t |-> "array", items |-> items]
Obj(keys, vals) == [t |-> "object", keys |-> keys, vals |-> vals]

\* Object.entries(value) of an object, and of an array (its indices as keys)
entries(value) ==
    CASE value.t = "object" -> [keys |-> value.keys, vals |-> value.vals]
      [] value.t = "array" ->
            [keys |-> [i \in DOMAIN value.items |-> <<DigitChars[i]>>],
             vals |-> value.items]
      [] OTHER -> [keys |-> <<>>, vals |-> <<>>]

\* the key test without the lower-casing
isBlockedKeyCaseSensitive(key, piiFields) ==
    \E f \in DOMAIN piiFields : includes(key, piiFields[f])

\* `lowerPiiFields.some((piiField) => lowerKey.includes(piiField))`
isBlockedKey(key, piiFields) ==
    \E f \in DOMAIN piiFields :
        includes(toLowerCase(key), toLowerCase(piiFields[f]))

\* sanitizeValue on a string
sanitizeString(str) ==
    IF isEmail(str) THEN REDACTED_EMAIL
    ELSE IF isCard(str) THEN REDACTED_CARD
    ELSE IF isSSN(str) THEN REDACTED_SSN
    ELSE str

RECURSIVE sanitizeValue(_, _)
RECURSIVE sanitizeObject(_, _)

\* sanitizeValue(value, piiFields)
sanitizeValue(value, piiFields) ==
    CASE value.t = "string" -> Str(sanitizeString(value.s))
      [] value.t = "array" ->
            Arr([i \in DOMAIN value.items |->
                    sanitizeValue(value.items[i], piiFields)])
      [] value.t = "object" -> sanitizeObject(value, piiFields)
      [] OTHER -> value

\* sanitizeObject(obj, piiFields)
sanitizeObject(obj, piiFields) ==
    LET e == entries(obj)
    IN  Obj(e.keys,
            [i \in DOMAIN e.keys |->
                IF isBlockedKey(e.keys[i], piiFields)
                THEN Str(REDACTED)
                ELSE sanitizeValue(e.vals[i], piiFields)])

\* Array.prototype.join(', ') on an array of strings
RECURSIVE join(_)
join(items) ==
    IF items = <<>> THEN <<>>
    ELSE IF Len(items) = 1 THEN items[1].s
    ELSE items[1].s \o <<",", " ">> \o join(Tail(items))

\* sanitizeHeaders(headers, config): a header value is a string, an array
\* of strings or undefined
sanitizeHeaders(headers, piiFields) ==
    LET e == entries(headers)
    IN  Obj(e.keys,
            [i \in DOMAIN e.keys |->
                IF isBlockedKey(e.keys[i], piiFields) THEN Str(REDACTED)
                ELSE IF e.vals[i].t = "array" THEN Str(join(e.vals[i].items))
                ELSE IF e.vals[i].t = "string" THEN e.vals[i]
                ELSE Str(<<>>)])

\* ErrorTracker.sanitizeContext(context): the keyed parts of the snapshot
\* (method, path, ip, userAgent, statusCode and duration are copied)
sanitizeContext(context, config) ==
    [request |->
        [headers |-> IF config.sanitizePII
                     THEN sanitizeHeaders(context.request.headers,
                                          config.piiFields)
                     ELSE context.request.headers,
         query |-> IF config.sanitizePII
                   THEN sanitizeObject(context.request.query, config.piiFields)
                   ELSE context.request.query,
         params |-> context.request.params,
         body |-> IF config.sanitizePII
                  THEN sanitizeObject(context.request.body, config.piiFields)
                  ELSE context.request.body],
     response |->
        [headers |-> IF config.sanitizePII
                     THEN sanitizeHeaders(context.response.headers,
                                          config.piiFields)
                     ELSE context.response.headers,
         body |-> IF config.sanitizePII
                  THEN sanitizeObject(context.response.body, config.piiFields)
                  ELSE context.response.body],
     additional |-> IF config.sanitizePII
                    THEN sanitizeObject(context.additional, config.piiFields)
                    ELSE context.additional]

\* ---- the values the sanitizer is run on
plainText == <<"h", "i">>
anAddress == <<"a", "@", "b", ".", "c">>
anSSN == <<"1", "2", "3", "-", "4", "5", "-", "6", "7", "8", "9">>
aCard ==
    <<"4", "1", "1", "1", " ", "1", "1", "1", "1", " ", "1", "1", "1", "1",
      " ", "1", "1", "1", "1">>

Leaves ==
    {Null, Num(7), Bool(TRUE)} \cup
    {Str(str) : str \in {plainText, anAddress, anSSN, aCard, REDACTED}}

keySsn == <<"s", "s", "n">>
keyUserSsn == <<"u", "s", "e", "r", "S", "s", "n">>
keyApiKey == <<"a", "p", "i", "K", "e", "y">>
keyId == <<"i", "d">>
fieldID == <<"I", "D">>

Keys == {keySsn, keyUserSsn, keyApiKey, keyId}

\* config.piiFields
Blocklists == {<<keySsn>>, <<keyApiKey, fieldID>>}

\* one more level around value: an object holding it under a key, alone or
\* beside an id, or an array holding it, alone or before an address
Wrappings(value) ==
    {Obj(<<k>>, <<value>>) : k \in Keys}
    \cup {Obj(<<keyUserSsn, keyId>>, <<value, Num(7)>>)}
    \cup {Arr(<<value>>), Arr(<<value, Str(anAddress)>>)}

\* whether value can be a headers object: strings and arrays of strings
isHeaders(value) ==
    /\ value.t = "object"
    /\ \A i \in DOMAIN value.vals :
          \/ value.vals[i].t = "string"
          \/ /\ value.vals[i].t = "array"
             /\ \A j \in DOMAIN value.vals[i].items :
                   value.vals[i].items[j].t = "string"

Run(stage, x, depth, b) ==
    [stage |-> stage, x |-> x, depth |-> depth, piiFields |-> b,
     sanitizePII |-> TRUE, y |-> Null, z |-> Null, extra |-> Null]

\* the host has a value and a blocklist
NewValue ==
    /\ pii.stage = "none"
    /\ \E leaf \in Leaves, b \in Blocklists : pii' = Run("built", leaf, 0, b)
    /\ UNCHANGED <<senderVars, sdk, crumbs, ws, fp, signals, captures, run>>

Nest ==
    /\ pii.stage = "built"
    /\ pii.depth < MaxDepth
    /\ \E w \in Wrappings(pii.x) :
         pii' = [pii EXCEPT !.x = w, !.depth = @ + 1]
    /\ UNCHANGED <<senderVars, sdk, crumbs, ws, fp, signals, captures, run>>

\* y = sanitizeObject(x, piiFields)
Sanitize ==
    /\ pii.stage = "built"
    /\ pii.x.t \in {"object", "array"}
    /\ pii' = [pii EXCEPT !.stage = "sanitized",
                          !.y = sanitizeObject(pii.x, pii.piiFields)]
    /\ UNCHANGED <<senderVars, sdk, crumbs, ws, fp, signals, captures, run>>

\* z = sanitizeObject(y, piiFields)
SanitizeAgain ==
    /\ pii.stage = "sanitized"
    /\ pii' = [pii EXCEPT !.stage = "twice",
                          !.z = sanitizeObject(pii.y, pii.piiFields)]
    /\ UNCHANGED <<senderVars, sdk, crumbs, ws, fp, signals, captures, run>>

\* captureError(error, context) with the value in every keyed part of the
\* context (in the headers when it can be a headers object)
Capture ==
    /\ pii.stage = "built"
    /\ pii.x.t \in {"object", "array"}
    /\ \E sanitizePII \in BOOLEAN :
         LET headers == IF isHeaders(pii.x) THEN pii.x ELSE Obj(<<>>, <<>>)
             context == [request |-> [headers |-> headers, query |-> pii.x,
                                      params |-> pii.x, body |-> pii.x],
                         response |-> [headers |-> headers, body |-> pii.x],
                         additional |-> pii.x]
             config == [sanitizePII |-> sanitizePII,
                        piiFields |-> pii.piiFields]
         IN  pii' = [pii EXCEPT !.stage = "captured",
                                !.sanitizePII = sanitizePII,
                                !.extra = sanitizeContext(context, config)]
    /\ UNCHANGED <<senderVars, sdk, crumbs, ws, fp, signals, captures, run>>

PiiNext == NewValue \/ Nest \/ Sanitize \/ SanitizeAgain \/ Capture

PiiSpec == Init /\ [][PiiNext]_vars

\* ------------------------------- ErrorTracker: the breadcrumb history
\* (src/src/tracking/error-tracker.ts)  A breadcrumb is an object on the
\* heap, named by the number of the addBreadcrumb call that made it (0 names
\* an object the caller made); an array is a list of such names, so that a
\* copy of an array holds the same objects as the array it was copied from.

\* ErrorTracker.maxBreadcrumbs (100 in the source), scaled down
maxBreadcrumbs == 3
\* number of addBreadcrumb calls in one run
MaxAdds == 4
\* number of breadcrumb objects the host writes to in one run
MaxWrites == 1

\* slice(0, cap) for slice(-cap): the oldest are kept
keepFirst(array, cap) ==
    IF Len(array) > cap THEN SubSeq(array, 1, cap) ELSE array

\* `if (this.breadcrumbs.length > this.maxBreadcrumbs)
\*      this.breadcrumbs = this.breadcrumbs.slice(-this.maxBreadcrumbs)`
keepLast(array, cap) ==
    IF Len(array) > cap
    THEN SubSeq(array, Len(array) - cap + 1, Len(array))
    ELSE array

\* push, then keep the last cap
pushCapped(array, b, cap) == keepLast(Append(array, b), cap)

\* breadcrumbs from..to added one by one, in this order, to a history of
\* capacity cap: the first half of them, and once that history is worked
\* out, the second half
RECURSIVE addAll(_, _, _, _)
addAll(array, from, to, cap) ==
    IF from > to THEN array
    ELSE IF from = to THEN pushCapped(array, from, cap)
    ELSE LET mid == (from + to) \div 2
             firstHalf == addAll(array, from, mid, cap)
         IN  IF Len(firstHalf) >= 0
             THEN addAll(firstHalf, mid + 1, to, cap)
             ELSE firstHalf

\* the event given the tracker's own array
snapshotLive(array) ==
    IF Len(array) > 0 THEN [ref |-> "tracker", list |-> array]
    ELSE [ref |-> "undefined", list |-> <<>>]

\* captureError: `this.breadcrumbs.length > 0 ? [...this.breadcrumbs]
\* : undefined`, a new array holding the same breadcrumb objects
snapshotOf(array) ==
    IF Len(array) > 0 THEN [ref |-> "own", list |-> array]
    ELSE [ref |-> "undefined", list |-> <<>>]

\* getBreadcrumbs: `return [...this.breadcrumbs]`
getBreadcrumbs(array) == [ref |-> "own", list |-> array]

\* the list the holder of an array finds in it now
Seen(holder) ==
    IF holder.ref = "tracker" THEN crumbs.breadcrumbs ELSE holder.list

\* this.breadcrumbs is assigned a new array: a holder of the old array
\* keeps the old array
Detached(holder, old) ==
    IF holder.ref = "tracker" THEN [ref |-> "own", list |-> old] ELSE holder

\* the message field of breadcrumb object b
Message(b) == IF b = 0 THEN "callers" ELSE crumbs.heap[b]

\* a list of breadcrumbs as a reader finds it: the objects and their fields
Shown(list) ==
    [i \in DOMAIN list |-> [breadcrumb |-> list[i], message |-> Message(list[i])]]

\* addBreadcrumb(message, ...)
AddBreadcrumb ==
    /\ Len(crumbs.heap) < MaxAdds
    /\ LET b == Len(crumbs.heap) + 1
           pushed == Append(crumbs.breadcrumbs, b)
           assigned == Len(pushed) > maxBreadcrumbs
       IN  crumbs' = [crumbs EXCEPT
                        !.heap = Append(@, "added"),
                        !.since = Append(@, b),
                        !.breadcrumbs = keepLast(pushed, maxBreadcrumbs),
                        !.event = IF assigned THEN Detached(@, pushed) ELSE @,
                        !.returned = IF assigned THEN Detached(@, pushed) ELSE @,
                        !.last = "add"]
    /\ UNCHANGED <<senderVars, sdk, pii, ws, fp, signals, captures, run>>

\* clearBreadcrumbs(): `this.breadcrumbs = []`
ClearBreadcrumbs ==
    /\ crumbs.breadcrumbs # <<>>
    /\ crumbs' = [crumbs EXCEPT
                    !.since = <<>>,
                    !.breadcrumbs = <<>>,
                    !.event = Detached(@, crumbs.breadcrumbs),
                    !.returned = Detached(@, crumbs.breadcrumbs),
                    !.last = "clear"]
    /\ UNCHANGED <<senderVars, sdk, pii, ws, fp, signals, captures, run>>

\* captureError(error, context): the breadcrumbs of the event it returns
CaptureBreadcrumbs ==
    /\ crumbs' = [crumbs EXCEPT !.event = snapshotOf(crumbs.breadcrumbs),
                                !.last = "capture"]
    /\ UNCHANGED <<senderVars, sdk, pii, ws, fp, signals, captures, run>>

\* the host calls getBreadcrumbs() and keeps what it returns
GetBreadcrumbs ==
    /\ crumbs' = [crumbs EXCEPT !.returned = getBreadcrumbs(crumbs.breadcrumbs),
                                !.last = "get"]
    /\ UNCHANGED <<senderVars, sdk, pii, ws, fp, signals, captures, run>>

\* the host writes list into the array getBreadcrumbs returned
WriteReturned(list) ==
    IF crumbs.returned.ref = "tracker"
    THEN [crumbs EXCEPT !.breadcrumbs = list, !.last = "mutate"]
    ELSE [crumbs EXCEPT !.returned.list = list, !.last = "mutate"]

\* the host pushes a breadcrumb of its own onto the returned array
CallerPush ==
    /\ crumbs.returned.ref # "none"
    /\ 0 \notin Range(Seen(crumbs.returned))
    /\ crumbs' = WriteReturned(Append(Seen(crumbs.returned), 0))
    /\ UNCHANGED <<senderVars, sdk, pii, ws, fp, signals, captures, run>>

\* the host pops the last entry of the returned array
CallerPop ==
    /\ crumbs.returned.ref # "none"
    /\ Seen(crumbs.returned) # <<>>
    /\ LET list == Seen(crumbs.returned)
       IN  crumbs' = WriteReturned(SubSeq(list, 1, Len(list) - 1))
    /\ UNCHANGED <<senderVars, sdk, pii, ws, fp, signals, captures, run>>

\* the host assigns to the message field of a returned breadcrumb
CallerSetField ==
    /\ crumbs.returned.ref # "none"
    /\ \E i \in DOMAIN Seen(crumbs.returned) :
         LET b == Seen(crumbs.returned)[i]
         IN  /\ b # 0
             /\ crumbs.heap[b] = "added"
             /\ Cardinality({c \in DOMAIN crumbs.heap :
                                crumbs.heap[c] = "changed"}) < MaxWrites
             /\ crumbs' = [crumbs EXCEPT !.heap[b] = "changed",
                                         !.last = "mutate"]
    /\ UNCHANGED <<senderVars, sdk, pii, ws, fp, signals, captures, run>>

CrumbNext ==
    \/ AddBreadcrumb
    \/ ClearBreadcrumbs
    \/ CaptureBreadcrumbs
    \/ GetBreadcrumbs
    \/ CallerPush
    \/ CallerPop
    \/ CallerSetField

CrumbSpec == Init /\ [][CrumbNext]_vars

\* ---------------------------------- WebSocketClient: the realtime channel
\* (src/src/transport/websocket.ts)  The sockets the client has made and
\* that have not emitted 'close' yet are kept in the order of
\* `new WebSocket`; a socket emits its events (open, error, close) to the
\* handlers connect() attached to it, whether or not it still is the socket
\* this.ws refers to, and nothing after 'close'.

\* `private maxReconnectAttempts: number = 10`
maxReconnectAttempts == 10
\* number of sockets that get as far as their 'open' event in one run
MaxOpens == 1
\* number of messages offered to sendError / sendMetrics in one run
MaxMessages == 2

\* the channel as the constructor leaves it before it looks at the config
Fresh(enableWebSocket) ==
    [built |-> TRUE, enableWebSocket |-> enableWebSocket,
     ws |-> 0, sockets |-> <<>>, isConnecting |-> FALSE,
     reconnectTimer |-> FALSE, timers |-> 0, delay |-> 0,
     reconnectAttempts |-> 0,
     opens |-> 0, closed |-> FALSE, reconnected |-> FALSE,
     offered |-> <<>>, wire |-> <<>>]

\* the test with > for >=: one attempt more
attemptsExhaustedStrict(W) == W.reconnectAttempts > maxReconnectAttempts

\* scheduleReconnect: `this.reconnectAttempts >= this.maxReconnectAttempts`
attemptsExhausted(W) == W.reconnectAttempts >= maxReconnectAttempts

\* the backoff without its cap
reconnectDelayUncapped(attempts) == 1000 * Pow2(attempts)

\* `Math.min(1000 * Math.pow(2, this.reconnectAttempts), 30000)`
reconnectDelay(attempts) == Min(1000 * Pow2(attempts), 30000)

\* `if (this.reconnectTimer) clearTimeout(this.reconnectTimer)`: the timeout
\* the field refers to is cancelled if it is still pending; `timers` counts
\* the reconnect timeouts that are pending
clearReconnectTimer(W) ==
    [W EXCEPT !.timers = IF W.reconnectTimer THEN @ - 1 ELSE @,
              !.reconnectTimer = FALSE,
              !.delay = 0]

\* scheduleReconnect(): give up, or clear the pending timer and set a new one
scheduleReconnect(W) ==
    IF attemptsExhausted(W) THEN W
    ELSE [clearReconnectTimer(W) EXCEPT
            !.reconnectTimer = TRUE,
            !.timers = @ + 1,
            !.delay = reconnectDelay(W.reconnectAttempts)]

\* `this.ws && this.ws.readyState === WebSocket.OPEN`
isOpen(W) == W.ws # 0 /\ W.sockets[W.ws] = "OPEN"

\* a catch block that logs and leaves it at that
connectCatchSilent(W, throws) ==
    IF W.isConnecting \/ isOpen(W) THEN W
    ELSE IF throws
    THEN [W EXCEPT !.isConnecting = FALSE, !.reconnected = W.closed]
    ELSE [W EXCEPT !.isConnecting = TRUE,
                   !.reconnected = W.closed,
                   !.sockets = Append(@, "CONNECTING"),
                   !.ws = Len(W.sockets) + 1]

\* connect(): `new WebSocket(...)` throws or gives a socket that is
\* connecting, with the four handlers attached
connect(W, throws) ==
    IF W.isConnecting \/ isOpen(W) THEN W
    ELSE IF throws
    THEN scheduleReconnect([W EXCEPT !.isConnecting = FALSE,
                                     !.reconnected = W.closed])
    ELSE [W EXCEPT !.isConnecting = TRUE,
                   !.reconnected = W.closed,
                   !.sockets = Append(@, "CONNECTING"),
                   !.ws = Len(W.sockets) + 1]

\* `new WebSocketClient(config)`: connects when config.enableWebSocket
Construct ==
    /\ ~ws.built
    /\ \E enableWebSocket, throws \in BOOLEAN :
         ws' = IF enableWebSocket
               THEN connect(Fresh(enableWebSocket), throws)
               ELSE Fresh(enableWebSocket)
    /\ UNCHANGED <<senderVars, sdk, pii, crumbs, fp, signals, captures, run>>

\* socket k emits 'open'
SocketOpen(k) ==
    /\ ws.sockets[k] = "CONNECTING"
    /\ ws.opens < MaxOpens
    /\ ws' = [ws EXCEPT !.sockets[k] = "OPEN",
                        !.opens = @ + 1,
                        !.isConnecting = FALSE,
                        !.reconnectAttempts = 0]
    /\ UNCHANGED <<senderVars, sdk, pii, crumbs, fp, signals, captures, run>>

\* socket k fails and emits 'error'; its 'close' follows
SocketError(k) ==
    /\ ws.sockets[k] \in {"CONNECTING", "OPEN"}
    /\ ws' = [ws EXCEPT !.sockets[k] = "CLOSING",
                        !.isConnecting = FALSE]
    /\ UNCHANGED <<senderVars, sdk, pii, crumbs, fp, signals, captures, run>>

\* socket k emits 'close': the peer closed it, or it had failed, or the
\* client had closed it
SocketClose(k) ==
    /\ ws.sockets[k] \in {"OPEN", "CLOSING"}
    /\ ws' = scheduleReconnect(
                [ws EXCEPT !.sockets = SubSeq(@, 1, k - 1)
                                         \o SubSeq(@, k + 1, Len(@)),
                           !.isConnecting = FALSE,
                           !.ws = 0])
    /\ UNCHANGED <<senderVars, sdk, pii, crumbs, fp, signals, captures, run>>

\* the reconnect timer fires: `this.reconnectAttempts++; this.connect()`
ReconnectTimerFire ==
    /\ ws.built
    /\ ws.reconnectTimer
    /\ \E throws \in BOOLEAN :
         ws' = connect([ws EXCEPT !.reconnectTimer = FALSE,
                                  !.timers = @ - 1,
                                  !.delay = 0,
                                  !.reconnectAttempts = @ + 1], throws)
    /\ UNCHANGED <<senderVars, sdk, pii, crumbs, fp, signals, captures, run>>

\* the guard that only asks for a socket
sendGuardAnySocket(W) == W.ws # 0

\* sendError / sendMetrics: `if (this.ws && this.ws.readyState ===
\* WebSocket.OPEN)`
sendGuard(W) == isOpen(W)

\* what the caller of send finds: no socket, or the socket's readyState
Ready(W) == IF W.ws = 0 THEN "null" ELSE W.sockets[W.ws]

\* sendError(event) / sendMetrics(metrics) in state W: past the guard,
\* `this.ws.send(JSON.stringify(...))` puts the message on the wire of the
\* socket or throws into the catch block; before it, nothing happens
send(W, kind, event, throws) ==
    LET m == Len(W.offered) + 1
        sends == sendGuard(W) /\ ~throws
        msg == [kind |-> kind, event |-> event, ready |-> Ready(W),
                sent |-> sends]
    IN  [W EXCEPT !.offered = Append(@, msg),
                  !.wire = IF sends THEN Append(@, m) ELSE @]

\* the host calls sendMetrics(metrics)
SendMetrics ==
    /\ ws.built
    /\ Len(ws.offered) < MaxMessages
    /\ \E throws \in BOOLEAN : ws' = send(ws, "metrics", 0, throws)
    /\ UNCHANGED <<senderVars, sdk, pii, crumbs, fp, signals, captures, run>>

\* the event handed to the sender only when the channel took it
capturedIfSent(S, W, throws) ==
    IF W.enableWebSocket /\ (~sendGuard(W) \/ throws) THEN S ELSE addEvent(S)

\* captureError: `this.batchSender.addError(errorEvent)` comes before the
\* channel is looked at, and sendError catches what its send throws
captured(S, W, throws) == addEvent(S)

\* RootSenseSDK.captureError(error, context) with error tracking enabled
\* (and the uncaughtException / unhandledRejection handlers, which do the
\* same): the event goes to batchSender.addError and, when
\* config.enableWebSocket, to websocketClient.sendError
CaptureError ==
    /\ ws.built
    /\ Len(events) < MaxEvents
    /\ ws.enableWebSocket => Len(ws.offered) < MaxMessages
    /\ atCapacity(buffer) => CanCall(Sender)
    /\ \E throws \in BOOLEAN :
         /\ CommitSender(captured(Sender, ws, throws))
         /\ ws' = IF ws.enableWebSocket
                  THEN send(ws, "error", Len(events) + 1, throws)
                  ELSE ws
    /\ UNCHANGED <<enableMetrics, flushTimer, shutdown, sdk, pii, crumbs, fp, signals, captures, run>>

\* close(): clearTimeout, `this.ws.close(); this.ws = null`
Close ==
    /\ ws.built
    /\ ws' = [clearReconnectTimer(ws) EXCEPT
                !.sockets = IF ws.ws # 0 /\ @[ws.ws] \in {"CONNECTING", "OPEN"}
                            THEN [@ EXCEPT ![ws.ws] = "CLOSING"]
                            ELSE @,
                !.ws = 0,
                !.closed = TRUE]
    /\ UNCHANGED <<senderVars, sdk, pii, crumbs, fp, signals, captures, run>>

\* the sockets of the channel (none before it is constructed)
Sockets == IF ws.built THEN DOMAIN ws.sockets ELSE {}

RealtimeNext ==
    \/ Construct
    \/ \E k \in Sockets : SocketOpen(k)
    \/ \E k \in Sockets : SocketError(k)
    \/ \E k \in Sockets : SocketClose(k)
    \/ ReconnectTimerFire
    \/ SendMetrics
    \/ CaptureError
    \/ Close

\* the channel with the facade's captureError; the sender's own callbacks
\* (timer, metrics, POST replies) are those of Spec and are left out here
RealtimeSpec == Init /\ [][RealtimeNext]_vars

\* the channel on its own: the socket's events, the reconnect timer and
\* close()
ReconnectNext ==
    \/ Construct
    \/ \E k \in Sockets : SocketOpen(k)
    \/ \E k \in Sockets : SocketError(k)
    \/ \E k \in Sockets : SocketClose(k)
    \/ ReconnectTimerFire
    \/ Close

\* a socket that has failed (or that close() was called on) emits 'close'
\* in the end
ReconnectFairness == WF_vars(\E k \in Sockets : SocketClose(k))

ReconnectSpec == Init /\ [][ReconnectNext]_vars /\ ReconnectFairness

\* ------------------------------------------- fingerprints (utils/fingerprint)
\* (src/src/utils/config.ts 129-135, ErrorTracker.captureError)

\* number of generateFingerprint calls and captured errors in one run
MaxCalls == 2

\* the characters of the strings below, for the stand-in digest
Alphabet == LowerLetters \o UpperLetters \o DigitChars \o <<":", "/">>

HexChars == DigitChars \o SubSeq(LowerLetters, 1, 6)

\* the place of a character in the alphabet
code(c) == CHOOSE k \in DOMAIN Alphabet : Alphabet[k] = c

\* sum of the codes of the characters of data from position j on, each
\* times its position when weighted
RECURSIVE weigh(_, _, _)
weigh(data, j, weighted) ==
    IF j > Len(data) THEN 0
    ELSE code(data[j]) * (IF weighted THEN j ELSE 1)
         + weigh(data, j + 1, weighted)

\* createHash('sha256').update(data).digest('hex'): 64 lowercase hex digits
\* that are a function of data and of nothing else.  SHA-256 itself is not
\* computed: the digits are a stand-in with these two properties, and
\* nothing below relies on two strings having different digests.
sha256hex(data) ==
    LET plain == weigh(data, 1, FALSE)
        byPlace == weigh(data, 1, TRUE)
    IN  [i \in 1..64 |-> HexChars[((i * plain + byPlace) % 16) + 1]]

\* `endpoint || ''` and `x || fallback`: an absent or empty string is falsy
orElse(value, fallback) ==
    IF value.t = "string" /\ value.s # <<>> THEN value.s ELSE fallback

\* `${type}:${service}:${endpoint || ''}`
fingerprintData(type, service, endpoint) ==
    type \o <<":">> \o service \o <<":">> \o orElse(endpoint, <<>>)

\* generateFingerprint(type, service, endpoint)
generateFingerprint(type, service, endpoint) ==
    SubSeq(sha256hex(fingerprintData(type, service, endpoint)), 1, 16)

\* a fingerprint that also takes the error's message
errorFingerprintWithMessage(error, serviceName, context) ==
    generateFingerprint(orElse(error.name, STR_Error) \o error.message,
                        serviceName, Str(orElse(context.path, STR_unknown)))

\* captureError: errorType = error.constructor.name || "Error", endpoint =
\* context?.request?.path || "unknown", and
\* generateFingerprint(errorType, this.config.serviceName, endpoint)
errorFingerprint(error, serviceName, context) ==
    generateFingerprint(orElse(error.name, STR_Error), serviceName,
                        Str(orElse(context.path, STR_unknown)))

\* ---- the strings the fingerprint is taken of
Types == {STR_Error, STR_TypeError, STR_Error_a}
Services == {STR_svc, STR_a_svc}
Endpoints == {Null, Str(<<>>), Str(STR_x), Str(STR_svc_x)}

Errors ==
    [name : {Str(<<>>), Str(STR_Error), Str(STR_TypeError)},
     message : {STR_a, STR_svc}]
Contexts == [path : {Null, Str(STR_x)}, time : {1, 2}]

\* the host calls generateFingerprint(type, service, endpoint)
Generate ==
    /\ Len(fp.calls) < MaxCalls
    /\ \E type \in Types, service \in Services, endpoint \in Endpoints :
         fp' = [fp EXCEPT !.calls = Append(@,
                  [kind |-> "generate",
                   type |-> type, service |-> service, endpoint |-> endpoint,
                   data |-> fingerprintData(type, service, endpoint),
                   fingerprint |-> generateFingerprint(type, service, endpoint)])]
    /\ UNCHANGED <<senderVars, sdk, pii, crumbs, ws, signals, captures, run>>

\* ErrorTracker.captureError(error, context) of a tracker configured with
\* serviceName: the fingerprint of the event
CaptureFingerprint ==
    /\ Len(fp.calls) < MaxCalls
    /\ \E error \in Errors, context \in Contexts :
         fp' = [fp EXCEPT !.calls = Append(@,
                  [kind |-> "capture", error |-> error, context |-> context,
                   fingerprint |-> errorFingerprint(error, fp.serviceName,
                                                    context)])]
    /\ UNCHANGED <<senderVars, sdk, pii, crumbs, ws, signals, captures, run>>

FpNext == Generate \/ CaptureFingerprint

FpSpec == Init /\ [][FpNext]_vars

\* ------------------------------------------------------------ observations
\* number of positions of seq holding e
Occ(seq, e) == Cardinality({i \in DOMAIN seq : seq[i] = e})

RECURSIVE SumOver(_, _)
SumOver(f, n) == IF n = 0 THEN 0 ELSE SumOver(f, n - 1) + f[n]

\* number of chunks of flush t's snapshot that hold event e
chunkCount(t, e) ==
    SumOver([i \in DOMAIN tasks[t].batches |-> Occ(tasks[t].batches[i], e)],
            Len(tasks[t].batches))

\* number of sendWithRetry calls of flush t so far whose payload holds e
sentCount(t, e) ==
    SumOver([i \in DOMAIN tasks[t].log |-> Occ(tasks[t].log[i].body, e)],
            Len(tasks[t].log))

\* the events accepted by addEvent so far
Accepted == DOMAIN events

\* ceil(n / d) for d > 0
Ceil(n, d) == (n + d - 1) \div d

\* number of POSTs flush t has issued so far
postCount(t) ==
    SumOver([i \in DOMAIN tasks[t].log |-> tasks[t].log[i].posts],
            Len(tasks[t].log))

\* flush t has ended after its snapshot with every chunk answered 2xx on its
\* first POST
AllFirstTry(t) ==
    /\ tasks[t].pc = "done"
    /\ tasks[t].snapped
    /\ tasks[t].log # <<>>
    /\ \A i \in DOMAIN tasks[t].log : tasks[t].log[i].hist = <<"2xx">>

\* the members of a sequence of sequences, one after the other
RECURSIVE Concat(_)
Concat(chunks) ==
    IF chunks = <<>> THEN <<>> ELSE Head(chunks) \o Concat(Tail(chunks))

\* the events of seq that addEvent accepted (metric events made by flush
\* have negative ids), in the order seq lists them
HostEvents(seq) == SelectSeq(seq, LAMBDA e : e > 0)

\* seq is strictly increasing: its events are in the order of acceptance
InAcceptOrder(seq) ==
    \A i, j \in DOMAIN seq : i < j => seq[i] < seq[j]

\* the lengths of the members of a sequence of sequences
Sizes(chunks) == [i \in DOMAIN chunks |-> Len(chunks[i])]

\* the sendWithRetry calls on record: <<flush, chunk index>>
Chunks == UNION {{<<t, i>> : i \in DOMAIN tasks[t].log} : t \in DOMAIN tasks}
Chunk(c) == tasks[c[1]].log[c[2]]

\* the promise returned by shutdown(): it awaits the promise of its flush()
\* call, which is already resolved when that call returned at the guard
ShutdownPromise ==
    IF ~shutdown.called THEN "none"
    ELSE IF shutdown.task = 0 THEN "resolved"
    ELSE tasks[shutdown.task].settled

\* outcomes the retry loop treats as retryable failures
Retryable == {"5xx"} \cup Rejections
Is4xx(o) == o \in {"4xx", "4xx-bodyfail"}

\* ------------------------------------------------------------------ claims

\* C1: every event accepted by addEvent before shutdown() was called has been
\* in the body of at least one POST by the time the promise returned by
\* shutdown() resolves.
ShutdownDrains ==
    ShutdownPromise = "resolved" =>
        \A e \in 1..shutdown.seen : events[e].posts >= 1

\* C2: at most one flush is in progress at any time, and a flush() call made
\* while one is in progress (timer, caller, shutdown, addEvent at capacity)
\* starts nothing, issues no POST and leaves the buffer alone (addEvent then
\* only appends its own event).
AtMostOneFlush == Cardinality(Active) <= 1

NoOpWhileFlushing ==
    isFlushing =>
        /\ (TimerFire \/ CallerFlush \/ Shutdown) =>
               UNCHANGED <<buffer, tasks, events, isFlushing>>
        /\ AddEvent =>
               /\ UNCHANGED <<tasks, isFlushing>>
               /\ \A e \in Accepted : events'[e] = events[e]
               /\ buffer' = Append(buffer, Len(events) + 1)

SingleFlight == []AtMostOneFlush /\ [][NoOpWhileFlushing]_vars

\* a shutdown() called while a flush was in progress returned at the guard
\* with events left in the buffer, and that flush is still in progress
SingleFlightWitness ==
    /\ shutdown.called /\ shutdown.busy /\ shutdown.task = 0
    /\ Cardinality(Active) = 1
    /\ buffer # <<>>

\* C3: the pending-event buffer never holds more than maxBufferSize events.
BoundedBuffer == Len(buffer) <= maxBufferSize

\* C4 as stated: with no flush in progress, the addEvent call that brings
\* the buffer length to maxBufferSize starts a flush.
CapacityTriggerOnReach ==
    [][(AddEvent /\ ~isFlushing /\ Len(buffer) = maxBufferSize - 1
                 /\ Len(buffer') = maxBufferSize)
         => Len(tasks') = Len(tasks) + 1]_vars

\* C4 amended: with no flush in progress, an addEvent call that finds the
\* buffer already holding maxBufferSize events or more starts a flush itself,
\* before it appends; an addEvent call that finds fewer starts none.
CapacityTriggerWhenFull ==
    [][(AddEvent /\ ~isFlushing) =>
         IF Len(buffer) >= maxBufferSize
         THEN /\ Len(tasks') = Len(tasks) + 1
              /\ tasks'[Len(tasks')].byAdd
              /\ isFlushing'
         ELSE UNCHANGED <<tasks, isFlushing>>]_vars

\* a flush started by addEvent is in progress, and the timer is still armed
CapacityTriggerWitness ==
    /\ \E t \in Active : tasks[t].byAdd
    /\ flushTimer

\* C5: each event is placed in the snapshot of at most one flush and in
\* exactly one chunk of that snapshot, is handed to sendWithRetry at most
\* once, and once it is in a snapshot it is not in the shared buffer,
\* whatever became of its chunk.
NoDuplication ==
    /\ \A e \in Accepted :
          /\ Len(events[e].snapBy) <= 1
          /\ Occ(buffer, e) + Len(events[e].snapBy) = 1
    /\ \A t \in DOMAIN tasks : \A e \in Range(tasks[t].toSend) :
          /\ Occ(tasks[t].toSend, e) = 1
          /\ chunkCount(t, e) = 1
          /\ sentCount(t, e) <= 1
          /\ Occ(buffer, e) = 0
          /\ \A u \in DOMAIN tasks : u # t => Occ(tasks[u].toSend, e) = 0

\* a flush of two chunks has ended with a chunk refused or given up
NoDuplicationWitness ==
    \E t \in DOMAIN tasks :
        /\ tasks[t].pc = "done"
        /\ Len(tasks[t].batches) = 2
        /\ Len(tasks[t].log) = 2
        /\ \E i \in DOMAIN tasks[t].log :
              tasks[t].log[i].result \in {"rejected", "dropped"}

DeliveredAtFirstSuccess ==
    \A c \in Chunks : \A k \in DOMAIN Chunk(c).hist :
        ( /\ Chunk(c).hist[k] = "2xx"
          /\ \A j \in 1..(k - 1) : Chunk(c).hist[j] \in Retryable
          /\ k <= retryAttempts )
        => /\ Chunk(c).posts = k
           /\ Len(Chunk(c).hist) = k
           /\ Chunk(c).result = "delivered"
           /\ \A e \in Range(Chunk(c).body) \cap Accepted :
                 events[e].posts = k /\ events[e].sealed

NoPostOnceReturned ==
    \A e \in Accepted : events[e].sealed => events'[e].posts = events[e].posts

RetryUntilSuccess == []DeliveredAtFirstSuccess /\ [][NoPostOnceReturned]_vars

\* a chunk was delivered by its second attempt and its flush has ended
RetryUntilSuccessWitness ==
    \E c \in Chunks :
        /\ Len(Chunk(c).hist) = 2
        /\ Chunk(c).hist[1] \in Retryable
        /\ Chunk(c).hist[2] = "2xx"
        /\ Chunk(c).posts = 2
        /\ tasks[c[1]].pc = "done"

\* C8: no chunk and no event is POSTed more than retryAttempts times, and a
\* chunk whose every attempt failed with a retryable outcome was POSTed
\* exactly retryAttempts times and then dropped.
RetryExhaustion ==
    /\ \A c \in Chunks :
          /\ Chunk(c).posts <= retryAttempts
          /\ ( /\ Chunk(c).result # "inflight"
               /\ \A j \in DOMAIN Chunk(c).hist : Chunk(c).hist[j] \in Retryable )
             => /\ Chunk(c).posts = retryAttempts
                /\ Len(Chunk(c).hist) = retryAttempts
                /\ Chunk(c).result = "dropped"
    /\ \A e \in Accepted : events[e].posts <= retryAttempts

\* a chunk was dropped after retryAttempts retryable failures
RetryExhaustionWitness ==
    \E c \in Chunks :
        /\ Chunk(c).result = "dropped"
        /\ Chunk(c).posts = retryAttempts
        /\ \A j \in DOMAIN Chunk(c).hist : Chunk(c).hist[j] \in Retryable

\* C9: once a POST of a chunk has been answered with a 4xx status the chunk
\* is dropped at once, with no backoff wait and no further POST; answered
\* 4xx on its first POST, the chunk is POSTed exactly once.
NoRetryOn4xx ==
    \A c \in Chunks : \A k \in DOMAIN Chunk(c).hist :
        Is4xx(Chunk(c).hist[k]) =>
            /\ Chunk(c).posts = k
            /\ Chunk(c).result = "rejected"

\* C10: the promise of a flush() never rejects, and neither does the
\* promise of shutdown(): a flush that has ended has resolved.
NeverRejects ==
    /\ \A t \in DOMAIN tasks :
          /\ tasks[t].settled # "rejected"
          /\ tasks[t].pc = "done" <=> tasks[t].settled = "resolved"
    /\ ShutdownPromise # "rejected"

\* the flush awaited by shutdown() ended on a failed metrics snapshot with
\* the events still in the buffer, and shutdown() resolved
NeverRejectsWitness ==
    /\ shutdown.task # 0
    /\ tasks[shutdown.task].pc = "done"
    /\ ~tasks[shutdown.task].snapped
    /\ ShutdownPromise = "resolved"
    /\ buffer # <<>>

\* C11 as stated: a flush that found n events in the buffer when it was
\* triggered, and whose POSTs all succeed at once, issues ceil(n / batchSize)
\* POSTs.
ChunksOfTriggerBuffer ==
    \A t \in DOMAIN tasks :
        AllFirstTry(t) => postCount(t) = Ceil(tasks[t].held, batchSize)

\* C11 amended: the n that counts is the length of the flush's snapshot (the
\* events found at the trigger, the events added while the flush awaited the
\* metrics snapshot, and the metric events the flush appended).  The
\* snapshot is cut into ceil(n / batchSize) chunks, all but the last of
\* batchSize events and the last of the remainder; when every POST succeeds
\* at once the flush issues one POST per chunk, carrying that chunk.  Five
\* events with batchSize 2 make chunks of 2, 2 and 1.
ChunkCountAndSizes ==
    /\ \A t \in DOMAIN tasks :
          LET n == Len(tasks[t].toSend)
              c == Ceil(n, batchSize)
          IN  /\ Len(tasks[t].batches) = c
              /\ \A i \in 1..(c - 1) : Len(tasks[t].batches[i]) = batchSize
              /\ c > 0 => Len(tasks[t].batches[c]) = n - (c - 1) * batchSize
              /\ AllFirstTry(t) =>
                    /\ postCount(t) = c
                    /\ Len(tasks[t].log) = c
                    /\ \A i \in 1..c :
                          /\ tasks[t].log[i].posts = 1
                          /\ tasks[t].log[i].body = tasks[t].batches[i]
    /\ Sizes(chunkArray(<<1, 2, 3, 4, 5>>, 2)) = <<2, 2, 1>>

\* a flush of batchSize + 1 events has ended with both its chunks delivered
\* at the first POST, having found fewer events when it was triggered
ChunkCountWitness ==
    \E t \in DOMAIN tasks :
        /\ AllFirstTry(t)
        /\ Len(tasks[t].toSend) = batchSize + 1
        /\ tasks[t].held < Len(tasks[t].toSend)
        /\ postCount(t) = 2

\* C12: within one flush the sendWithRetry calls follow the chunk order, the
\* i-th call carrying the i-th chunk; a chunk gets its first POST only when
\* every earlier chunk is finished (delivered, rejected or dropped), so at
\* most the last chunk on record is in flight; the chunks one after the
\* other are the snapshot, and the snapshot, like the buffer, lists the
\* events in the order addEvent accepted them.
OrderedSequentialChunks ==
    /\ InAcceptOrder(HostEvents(buffer))
    /\ \A t \in DOMAIN tasks :
          /\ Concat(tasks[t].batches) = tasks[t].toSend
          /\ InAcceptOrder(HostEvents(tasks[t].toSend))
          /\ Len(tasks[t].log) <= Len(tasks[t].batches)
          /\ \A i \in DOMAIN tasks[t].log :
                /\ tasks[t].log[i].body = tasks[t].batches[i]
                /\ i < Len(tasks[t].log) => tasks[t].log[i].result # "inflight"
                /\ tasks[t].log[i].result = "inflight" =>
                      tasks[t].pc \in {"post", "backoff"} /\ tasks[t].bi = i
                /\ tasks[t].log[i].posts >= 1

\* the second chunk of a flush is on the wire after the first one was given
\* up, and the snapshot holds two events accepted by addEvent
OrderedChunksWitness ==
    \E t \in DOMAIN tasks :
        /\ Len(tasks[t].log) = 2
        /\ tasks[t].log[1].result = "dropped"
        /\ tasks[t].log[2].result = "inflight"
        /\ tasks[t].pc = "post"
        /\ Len(HostEvents(tasks[t].toSend)) = 2

\* C13: a sender waiting between attempts has just had its attempt with
\* 0-based index i fail, has another attempt left (i + 1 < retryAttempts) and
\* waits retryDelay * 2^i ms: retryDelay, 2 * retryDelay, 4 * retryDelay, ...
\* A retryable failure with an attempt left is followed by that wait, a
\* further POST of a chunk is issued only out of that wait, and the failure
\* of the last attempt is followed by no wait.
BackoffDelays ==
    /\ \A t \in DOMAIN tasks :
          tasks[t].pc = "backoff" =>
              LET i == tasks[t].attempt
                  h == tasks[t].log[tasks[t].bi].hist
              IN  /\ Len(h) = i + 1
                  /\ h[i + 1] # "2xx"
                  /\ i + 1 < retryAttempts
                  /\ tasks[t].delay = retryDelay * 2^i
    /\ <<backoffDelay(0), backoffDelay(1), backoffDelay(2)>>
          = <<retryDelay, 2 * retryDelay, 4 * retryDelay>>

WaitThenRetry ==
    \A t \in DOMAIN tasks :
        tasks[t].pc = "post" =>
            LET b == tasks[t].bi
                h == tasks[t].log[b].hist
                h1 == tasks'[t].log[b].hist
            IN  (Len(h1) = Len(h) + 1 /\ h1[Len(h1)] \in Retryable)
                => IF Len(h1) < retryAttempts
                   THEN /\ tasks'[t].pc = "backoff"
                        /\ tasks'[t].bi = b
                        /\ tasks'[t].delay = retryDelay * 2^(Len(h1) - 1)
                        /\ tasks'[t].log[b].posts = tasks[t].log[b].posts
                   ELSE /\ tasks'[t].pc # "backoff"
                        /\ tasks'[t].delay = 0
                        /\ tasks'[t].log[b].result = "dropped"

RetryOnlyAfterWait ==
    \A t \in DOMAIN tasks :
        ( /\ tasks[t].pc \in {"post", "backoff"}
          /\ tasks'[t].pc \in {"post", "backoff"}
          /\ tasks'[t].bi = tasks[t].bi
          /\ tasks'[t].log[tasks[t].bi].posts > tasks[t].log[tasks[t].bi].posts )
        => /\ tasks[t].pc = "backoff"
           /\ tasks[t].delay
                = retryDelay * 2^(tasks[t].log[tasks[t].bi].posts - 1)

MetricsOk(t) == MetricsDone(t) /\ tasks'[t].snapped

\* C14: with the timer firing and every pending metrics snapshot, fetch and
\* backoff wait settling, every event accepted by addEvent is eventually in
\* the body of a POST, unless shutdown() is called.
EventuallyPosted ==
    \A e \in 1..MaxEvents :
        [](e \in Accepted =>
             <>((e \in Accepted /\ events[e].posts >= 1) \/ shutdown.called))

\* the same, for the runs in which the metrics snapshot does not fail for
\* ever
EventuallyPostedIfMetricsOk ==
    SF_vars(\E t \in DOMAIN tasks : MetricsOk(t)) => EventuallyPosted

\* C15: captureError, recordRequest and addBreadcrumb return normally
\* whichever of the calls they make throws (error tracker with sanitizer and
\* fingerprinting, buffer, realtime channel, metrics registry); the calls
\* made before the one that threw were made, the later ones were not.
FacadeNeverRaises ==
    sdk.last.op \in FacadeOps =>
        /\ sdk.last.result = "returned"
        /\ sdk.last.threwAt # "none" =>
              /\ sdk.last.threwAt \in sdk.last.faults
              /\ sdk.last.threwAt \notin Range(sdk.last.done)

\* captureError returned although the buffer threw after the error tracker
\* had built the event
FacadeNeverRaisesWitness ==
    /\ sdk.last.op = "captureError"
    /\ sdk.last.done = <<"errorTracker.captureError">>
    /\ sdk.last.threwAt = "batchSender.addError"
    /\ sdk.last.result = "returned"

\* C16: once an init has succeeded, every later init call, whatever its
\* config, returns that same instance and builds nothing: there is never
\* more than one buffer, flush timer, websocket client or pair of
\* process-level handlers.
OnePipeline ==
    /\ sdk.built.batchSender <= 1
    /\ sdk.built.flushTimer <= 1
    /\ sdk.built.websocketClient <= 1
    /\ sdk.built.websocket <= 1
    /\ sdk.built.handlers <= 2
    /\ sdk.instance # 0 <=> sdk.built.batchSender = 1

\* a step that leaves a new init call on record is a step of init
ReinitReturnsSame ==
    (sdk.instance # 0 /\ sdk'.last.op = "init" /\ sdk' # sdk) =>
        /\ sdk'.instance = sdk.instance
        /\ sdk'.built = sdk.built
        /\ sdk'.config = sdk.config
        /\ sdk'.last.result = "returned"
        /\ sdk'.last.instance = sdk.instance

MissingCredentialsRaise ==
    ( /\ sdk.last.op = "init"
      /\ sdk.last.dsn = "none" /\ ~sdk.last.apiKey /\ ~sdk.last.envKey )
    => /\ sdk.last.result = "raised"
       /\ sdk.last.error = "API key is required"

\* what does hold: the call raises when no instance exists yet
MissingCredentialsRaiseAtConstruction ==
    ( /\ sdk.last.op = "init" /\ ~sdk.last.hadInstance
      /\ sdk.last.dsn = "none" /\ ~sdk.last.apiKey /\ ~sdk.last.envKey )
    => /\ sdk.last.result = "raised"
       /\ sdk.last.error = "API key is required"

\* ---- what a sanitized value must look like

\* the lower-cased key contains a lower-cased blocked field name
NamesBlockedField(key, blocked) ==
    \E f \in DOMAIN blocked :
        \E i \in 0..(Len(key) - Len(blocked[f])) :
            \A k \in 1..Len(blocked[f]) :
                lowerChar(key[i + k]) = lowerChar(blocked[f][k])

\* every value under a key naming a blocked field is the marker, in value
\* and in the mappings and arrays below it
RECURSIVE Covered(_, _)
Covered(value, blocked) ==
    CASE value.t = "object" ->
            \A i \in DOMAIN value.keys :
                IF NamesBlockedField(value.keys[i], blocked)
                THEN value.vals[i] = Str(REDACTED)
                ELSE Covered(value.vals[i], blocked)
      [] value.t = "array" ->
            \A i \in DOMAIN value.items : Covered(value.items[i], blocked)
      [] OTHER -> TRUE

\* out has the shape of in, and each number, boolean and null of in that is
\* not under a key naming a blocked field is in out at the same place
RECURSIVE ScalarsKept(_, _, _)
ScalarsKept(in, out, blocked) ==
    CASE in.t = "object" ->
            /\ out.t = "object"
            /\ out.keys = in.keys
            /\ \A i \in DOMAIN in.keys :
                  \/ NamesBlockedField(in.keys[i], blocked)
                  \/ ScalarsKept(in.vals[i], out.vals[i], blocked)
      [] in.t = "array" ->
            /\ out.t = "array"
            /\ Len(out.items) = Len(in.items)
            /\ \A i \in DOMAIN in.items :
                  ScalarsKept(in.items[i], out.items[i], blocked)
      [] in.t = "string" -> out.t = "string"
      [] OTHER -> out = in

\* a value as sanitizeObject reads it: by its entries
AsObject(value) == Obj(entries(value).keys, entries(value).vals)

Markers == {REDACTED, REDACTED_EMAIL, REDACTED_CARD, REDACTED_SSN}

\* C18 (as stated): with sanitizePII enabled, in every keyed part of the
\* captured context (request headers, query, params and body, response
\* headers and body, additional data) every value under a key naming a
\* blocked field, at any depth, is '[REDACTED]'.
ContextRedacted ==
    (pii.stage = "captured" /\ pii.sanitizePII) =>
        /\ Covered(pii.extra.request.headers, pii.piiFields)
        /\ Covered(pii.extra.request.query, pii.piiFields)
        /\ Covered(pii.extra.request.params, pii.piiFields)
        /\ Covered(pii.extra.request.body, pii.piiFields)
        /\ Covered(pii.extra.response.headers, pii.piiFields)
        /\ Covered(pii.extra.response.body, pii.piiFields)
        /\ Covered(pii.extra.additional, pii.piiFields)

\* the same for every part but request.params, which sanitizeContext copies
ContextRedactedButParams ==
    (pii.stage = "captured" /\ pii.sanitizePII) =>
        /\ Covered(pii.extra.request.headers, pii.piiFields)
        /\ Covered(pii.extra.request.query, pii.piiFields)
        /\ Covered(pii.extra.request.body, pii.piiFields)
        /\ Covered(pii.extra.response.headers, pii.piiFields)
        /\ Covered(pii.extra.response.body, pii.piiFields)
        /\ Covered(pii.extra.additional, pii.piiFields)
        /\ pii.extra.request.params = pii.x

\* C19: in the result of sanitizeObject(x, blocked) every value under a key
\* whose lower-cased name contains a lower-cased blocked field name is
\* '[REDACTED]' whatever its type, at every depth of mappings and arrays,
\* and every other number, boolean and null is unchanged.
SanitizerCoverage ==
    pii.stage \in {"sanitized", "twice"} =>
        /\ Covered(pii.y, pii.piiFields)
        /\ ScalarsKept(AsObject(pii.x), pii.y, pii.piiFields)

\* a boolean under the key userSsn, one level down, is redacted for the
\* blocked field ssn, and the number beside it is kept
SanitizerCoverageWitness ==
    /\ pii.stage = "sanitized"
    /\ pii.piiFields = <<keySsn>>
    /\ pii.x = Obj(<<keyApiKey>>,
                   <<Obj(<<keyUserSsn, keyId>>, <<Bool(TRUE), Num(7)>>)>>)
    /\ pii.y = Obj(<<keyApiKey>>,
                   <<Obj(<<keyUserSsn, keyId>>, <<Str(REDACTED), Num(7)>>)>>)

\* C20: sanitizeObject(sanitizeObject(x, b), b) = sanitizeObject(x, b), and
\* the four markers are fixed points of the sanitizer.
SanitizerIdempotent ==
    /\ pii.stage = "twice" => pii.z = pii.y
    /\ \A m \in Markers, b \in Blocklists :
          /\ sanitizeValue(Str(m), b) = Str(m)
          /\ sanitizeObject(Obj(<<keyId>>, <<Str(m)>>), <<keySsn>>)
                = Obj(<<keyId>>, <<Str(m)>>)

\* a card number and an address in an array were replaced by their markers,
\* and the second pass left the markers alone
SanitizerIdempotentWitness ==
    /\ pii.stage = "twice"
    /\ pii.x = Obj(<<keyId>>, <<Arr(<<Str(aCard), Str(anAddress)>>)>>)
    /\ pii.piiFields = <<keySsn>>
    /\ pii.y # pii.x
    /\ pii.z = Obj(<<keyId>>,
                   <<Arr(<<Str(REDACTED_CARD), Str(REDACTED_EMAIL)>>)>>)

\* ---- the breadcrumb history

\* the tracker's history as a reader finds it
History == Shown(crumbs.breadcrumbs)

\* the breadcrumbs of the latest event as a reader finds them
EventCrumbs == Shown(Seen(crumbs.event))

\* the last k entries of a list
LastOf(list, k) == SubSeq(list, Len(list) - Min(k, Len(list)) + 1, Len(list))

\* C21: the tracker never holds more than maxBreadcrumbs breadcrumbs, and
\* they are the most recently added ones (since the history was last
\* emptied) in insertion order; with a capacity of 100, 150 adds leave the
\* last 100.
BreadcrumbCap ==
    /\ Len(crumbs.breadcrumbs) <= maxBreadcrumbs
    /\ crumbs.breadcrumbs = LastOf(crumbs.since, maxBreadcrumbs)
    /\ addAll(<<>>, 1, 150, 100) = [i \in 1..100 |-> 50 + i]

\* more breadcrumbs were added than the history holds: the oldest are gone
BreadcrumbCapWitness ==
    /\ crumbs.last = "add"
    /\ Len(crumbs.since) = maxBreadcrumbs + 1
    /\ Len(crumbs.breadcrumbs) = maxBreadcrumbs
    /\ crumbs.breadcrumbs[1] = crumbs.since[2]

\* the event just built carries the history as it is
SnapshotAtCapture == crumbs.last = "capture" => EventCrumbs = History

\* addBreadcrumb, the eviction it does, and clearBreadcrumbs leave the
\* breadcrumbs of the event built before as they were
SnapshotKept ==
    (crumbs'.last \in {"add", "clear"} /\ crumbs' # crumbs)
        => EventCrumbs' = EventCrumbs

\* C22: the breadcrumb list of an ErrorEvent equals the tracker's history at
\* the moment of captureError, and no later addBreadcrumb, eviction or
\* clearBreadcrumbs changes the list the event carries.
PointInTimeSnapshot == []SnapshotAtCapture /\ [][SnapshotKept]_vars

\* an event was built with a full history, and a breadcrumb added since has
\* evicted the oldest one from the tracker but not from the event
PointInTimeSnapshotWitness ==
    /\ crumbs.last = "add"
    /\ crumbs.event.ref = "own"
    /\ Len(crumbs.event.list) = maxBreadcrumbs
    /\ Len(crumbs.breadcrumbs) = maxBreadcrumbs
    /\ crumbs.event.list[1] \notin Range(crumbs.breadcrumbs)
    /\ crumbs.breadcrumbs[maxBreadcrumbs] \notin Range(crumbs.event.list)

\* a list whose breadcrumbs are as addBreadcrumb made them
AsAdded(list) ==
    [i \in DOMAIN list |-> [breadcrumb |-> list[i], message |-> "added"]]

\* C23 (as stated): whatever the caller does to the value getBreadcrumbs
\* returned, the tracker's history holds the breadcrumbs as addBreadcrumb
\* made them, and so does an event built afterwards.
ReturnedIsACopy ==
    /\ History = AsAdded(crumbs.breadcrumbs)
    /\ crumbs.last = "capture" => EventCrumbs = AsAdded(Seen(crumbs.event))

\* adding to and removing from the returned array leaves the history alone
ReturnedArrayIsACopy ==
    [][(crumbs'.last = "mutate" /\ crumbs' # crumbs)
          => crumbs'.breadcrumbs = crumbs.breadcrumbs]_vars

\* ---- the realtime channel

\* a message is on the wire only if the socket was open when it was offered,
\* and the wire holds the messages that were sent, once each, in order
SentOnlyWhenOpen ==
    ws.built =>
        /\ \A m \in DOMAIN ws.offered :
              ws.offered[m].sent => ws.offered[m].ready = "OPEN"
        /\ ws.wire = SelectSeq([m \in DOMAIN ws.offered |-> m],
                               LAMBDA m : ws.offered[m].sent)

\* the wire grows only by the message being offered in that step
WireOnlyAtCall ==
    (ws.built /\ ws'.wire # ws.wire) =>
        /\ Len(ws'.offered) = Len(ws.offered) + 1
        /\ ws'.wire = Append(ws.wire, Len(ws'.offered))

\* C24: sendError / sendMetrics transmit a message only if the socket is
\* open at the moment of the call; a message offered in any other state is
\* dropped and is not transmitted after a later connection or reconnection.
RealtimeNeverRetains == []SentOnlyWhenOpen /\ [][WireOnlyAtCall]_vars

\* a message was offered while the socket was connecting; the socket is
\* open now and nothing has gone out
RealtimeNeverRetainsWitness ==
    /\ ws.built
    /\ Len(ws.offered) = 1
    /\ ws.offered[1].ready = "CONNECTING"
    /\ isOpen(ws)
    /\ ws.wire = <<>>

\* the latest attempt was the last one allowed and it has failed
GivenUp ==
    /\ ws.built
    /\ ws.reconnectAttempts = maxReconnectAttempts
    /\ ws.sockets = <<>>

AttemptsCapped ==
    ws.built =>
        /\ ws.reconnectAttempts <= maxReconnectAttempts
        /\ GivenUp => ~ws.reconnectTimer /\ ~ws.isConnecting

\* the counter goes back to 0 only when a socket opens, and once the channel
\* has given up no attempt is scheduled or started
ResetOnlyByOpenAndGivenUpForGood ==
    /\ (ws.built /\ ws.reconnectAttempts > 0 /\ ws'.reconnectAttempts = 0)
          => ws'.opens = ws.opens + 1
    /\ GivenUp => /\ ws'.reconnectAttempts = ws.reconnectAttempts
                  /\ ws'.sockets = <<>>
                  /\ ~ws'.reconnectTimer

\* C25: the reconnect counter never exceeds maxReconnectAttempts (10) and is
\* reset to 0 only by a successful open; once the 10th consecutive attempt
\* has failed no connection attempt is scheduled or started any more.
ReconnectGiveUp ==
    []AttemptsCapped /\ [][ResetOnlyByOpenAndGivenUpForGood]_vars

\* ten reconnects in a row have failed, the first of them after a socket
\* had been open
ReconnectGiveUpWitness ==
    /\ GivenUp
    /\ ws.opens = 1
    /\ ~ws.closed

\* C26 (as stated): once close() has been called no reconnect timer is
\* pending, the client holds no socket, and no connection attempt has been
\* started since.
CloseIsFinal ==
    (ws.built /\ ws.closed) =>
        /\ ~ws.reconnectTimer
        /\ ws.ws = 0
        /\ ~ws.reconnected

\* close() itself leaves no timer pending and no socket held
CloseTearsDown ==
    [][(ws.built /\ ~ws.closed /\ ws'.closed)
          => (~ws'.reconnectTimer /\ ws'.ws = 0)]_vars

\* a step of the channel that is not a captureError
ChannelStep == ws' # ws /\ events' = events

\* a captureError: an event accepted by the sender or offered to the channel
CaptureStep ==
    \/ Len(events') = Len(events) + 1
    \/ /\ ws.built
       /\ Len(ws'.offered) = Len(ws.offered) + 1
       /\ ws'.offered[Len(ws'.offered)].kind = "error"

ChannelLeavesBufferAlone ==
    /\ ChannelStep => buffer' = buffer /\ isFlushing' = isFlushing
    /\ CaptureStep =>
          LET e == Len(events) + 1
          IN  /\ Len(events') = e
              /\ Len(buffer') >= 1
              /\ buffer'[Len(buffer')] = e
              /\ Cardinality({i \in DOMAIN buffer' : buffer'[i] = e}) = 1

\* C27: no realtime action (connect, open, error, close, reconnect, send,
\* send failure) changes the batch sender's buffer or in-flight guard, and
\* captureError appends the event to the buffer exactly once whatever the
\* channel's state.
RealtimeDecoupled == [][ChannelLeavesBufferAlone]_vars

\* two errors were captured, the first while the socket was open and the
\* second after it had failed: both went to the sender
RealtimeDecoupledWitness ==
    /\ ws.built
    /\ Len(ws.offered) = 2
    /\ ws.offered[1].kind = "error" /\ ws.offered[1].sent
    /\ ws.offered[2].kind = "error" /\ ws.offered[2].ready = "CLOSING"
    /\ Len(events) = 2
    /\ buffer[Len(buffer)] = 2

\* ---- fingerprints

LowercaseHex ==
    {"0", "1", "2", "3", "4", "5", "6", "7", "8", "9",
     "a", "b", "c", "d", "e", "f"}

Generated == {c \in DOMAIN fp.calls : fp.calls[c].kind = "generate"}
Captured == {c \in DOMAIN fp.calls : fp.calls[c].kind = "capture"}

\* the exception type name of a captured error, "Error" when it has none
TypeNameOf(call) ==
    IF call.error.name.s = <<>> THEN STR_Error ELSE call.error.name.s

\* the request path of a captured error, "unknown" when it has none
PathOf(call) ==
    IF call.context.path.t = "string" /\ call.context.path.s # <<>>
    THEN call.context.path.s
    ELSE STR_unknown

\* the endpoint a generateFingerprint call was given, absent read as ''
EndpointOf(call) ==
    IF call.endpoint.t = "string" THEN call.endpoint.s ELSE <<>>

\* C28: generateFingerprint gives 16 lowercase hex characters, the same for
\* the same (type, service, endpoint); the fingerprint of a captured error
\* is that of (exception type name, configured service name, request path
\* or 'unknown') and does not depend on the error's message or on the time.
FingerprintDeterministic ==
    /\ \A c \in DOMAIN fp.calls :
          /\ Len(fp.calls[c].fingerprint) = 16
          /\ Range(fp.calls[c].fingerprint) \subseteq LowercaseHex
    /\ \A c, d \in Generated :
          ( /\ fp.calls[c].type = fp.calls[d].type
            /\ fp.calls[c].service = fp.calls[d].service
            /\ fp.calls[c].endpoint = fp.calls[d].endpoint )
          => fp.calls[c].fingerprint = fp.calls[d].fingerprint
    /\ \A c \in Captured :
          fp.calls[c].fingerprint =
              generateFingerprint(TypeNameOf(fp.calls[c]), fp.serviceName,
                                  Str(PathOf(fp.calls[c])))
    /\ \A c, d \in Captured :
          ( /\ TypeNameOf(fp.calls[c]) = TypeNameOf(fp.calls[d])
            /\ PathOf(fp.calls[c]) = PathOf(fp.calls[d]) )
          => fp.calls[c].fingerprint = fp.calls[d].fingerprint

\* two errors of the same type on the same path, with different messages at
\* different times, have the same fingerprint
FingerprintDeterministicWitness ==
    /\ Captured = {1, 2}
    /\ fp.calls[1].error.name = fp.calls[2].error.name
    /\ fp.calls[1].context.path = Str(STR_x)
    /\ fp.calls[2].context.path = Str(STR_x)
    /\ fp.calls[1].error.message # fp.calls[2].error.message
    /\ fp.calls[1].context.time # fp.calls[2].context.time
    /\ fp.calls[1].fingerprint = fp.calls[2].fingerprint

\* C29 (as stated): two (type, service, endpoint) triples that differ in a
\* component give different strings to the hash.
DistinctTriplesDistinctData ==
    \A c, d \in Generated :
        ( \/ fp.calls[c].type # fp.calls[d].type
          \/ fp.calls[c].service # fp.calls[d].service
          \/ EndpointOf(fp.calls[c]) # EndpointOf(fp.calls[d]) )
        => fp.calls[c].data # fp.calls[d].data

\* triples that differ in a component and hold no ':' in type or service
\* give different strings to the hash
DistinctDataWithoutSeparator ==
    \A c, d \in Generated :
        ( /\ \/ fp.calls[c].type # fp.calls[d].type
             \/ fp.calls[c].service # fp.calls[d].service
             \/ EndpointOf(fp.calls[c]) # EndpointOf(fp.calls[d])
          /\ \A x \in {c, d} :
                ":" \notin Range(fp.calls[x].type) \cup Range(fp.calls[x].service) )
        => fp.calls[c].data # fp.calls[d].data

\* ------------------------------------------------ flush on an empty buffer
\* flush() called on an empty buffer, by addEvent or by anybody else, leaves
\* the sender as it found it: no coroutine is started, so no metrics snapshot
\* is asked for and no POST is issued, and buffer and isFlushing keep their
\* values
FlushOnEmptyReturns ==
    Len(buffer) = 0 => \A byAdd \in BOOLEAN : flush(Sender, byAdd) = Sender

\* the flush() that shutdown() makes on an empty buffer changes nothing of
\* the sender
EmptyShutdownFlush ==
    (~shutdown.called /\ shutdown'.called /\ Len(buffer) = 0)
        => /\ buffer' = buffer
           /\ isFlushing' = isFlushing
           /\ tasks' = tasks
           /\ events' = events
           /\ shutdown'.task = 0

\* C30: flush() on an empty pending buffer is a no-op: it issues no POST,
\* takes no metrics snapshot and leaves the buffer and the in-flight guard
\* unchanged, with metrics enabled as with metrics disabled.
EmptyFlushIsNoOp == []FlushOnEmptyReturns /\ [][EmptyShutdownFlush]_vars

\* shutdown() has called flush() with metrics enabled, no flush in flight and
\* nothing pending, after events had been added and taken by an earlier flush
EmptyFlushIsNoOpWitness ==
    /\ enableMetrics
    /\ shutdown.called
    /\ ~shutdown.busy
    /\ shutdown.task = 0
    /\ shutdown.seen > 0

\* ------------------------------------------ BatchSender.sendSuccessSignal
\* number of sendSuccessSignal() calls in one run
MaxSignals == 2

\* `response.ok`: a status of 200..299
signalOk(o) == o = "2xx"

\* sendSuccessSignal up to its await: `await fetch(url, {method: "POST", ...})`
\* to `${baseUrl}/events/success`, one POST on the wire
signalCall == [pc |-> "post", posts |-> 1, outcome |-> "none",
               logged |-> FALSE, settled |-> "pending"]

\* a signal sent like a batch: another POST after a failure while attempts
\* remain
signalReplyRetrying(call, o) ==
    IF ~signalOk(o) /\ call.posts < retryAttempts
    THEN [call EXCEPT !.posts = @ + 1, !.outcome = o, !.logged = TRUE]
    ELSE [call EXCEPT !.pc = "done", !.outcome = o, !.logged = ~signalOk(o),
                      !.settled = "resolved"]

\* the fetch() of sendSuccessSignal settles with outcome o: a response that
\* is not ok is logged with console.debug, a rejection (network error,
\* AbortSignal timeout) is caught and logged with console.debug; the
\* function returns and its promise resolves
signalReply(call, o) ==
    [call EXCEPT !.pc = "done", !.outcome = o, !.logged = ~signalOk(o),
                 !.settled = "resolved"]

\* the span exporter (or the host) calls sendSuccessSignal(fingerprint, context)
SendSuccessSignal ==
    /\ Len(signals) < MaxSignals
    /\ signals' = Append(signals, signalCall)
    /\ UNCHANGED <<senderVars, sdk, pii, crumbs, ws, fp, captures, run>>

\* the pending fetch() of call i settles
SignalReply(i) ==
    /\ signals[i].pc = "post"
    /\ \E o \in Outcomes : signals' = [signals EXCEPT ![i] = signalReply(@, o)]
    /\ UNCHANGED <<senderVars, sdk, pii, crumbs, ws, fp, captures, run>>

\* success signals next to a sender that accepts events and flushes when full
SignalNext ==
    \/ AddEvent
    \/ SendSuccessSignal
    \/ \E i \in DOMAIN signals : SignalReply(i)

SignalSpec == Init /\ [][SignalNext]_vars

\* ---- success signals
\* every call has issued one POST, and a call that has ended has resolved
OnePostAndResolved ==
    \A i \in DOMAIN signals :
        /\ signals[i].posts = 1
        /\ signals[i].settled # "rejected"
        /\ signals[i].pc = "done" <=> signals[i].settled = "resolved"

\* a step of a success signal (the call, or its fetch settling) leaves the
\* sender as it was, and a call that has ended stays as it ended
SignalLeavesSenderAlone ==
    signals' # signals
        => /\ buffer' = buffer
           /\ isFlushing' = isFlushing
           /\ tasks' = tasks
           /\ events' = events
           /\ \A i \in DOMAIN signals :
                signals[i].pc = "done" => signals'[i] = signals[i]

\* C31: sendSuccessSignal issues exactly one POST per call and never retries
\* it, whether the fetch ends in a 2xx, a non-2xx status or a rejection
\* (network error, timeout); its promise never rejects; the pending buffer
\* and the in-flight guard are left as they were.
SuccessSignalBestEffort ==
    []OnePostAndResolved /\ [][SignalLeavesSenderAlone]_vars

\* two signals have ended, one on a 5xx response and one on a rejected
\* fetch, while a flush was in flight and an event was pending
SuccessSignalBestEffortWitness ==
    /\ Len(signals) = 2
    /\ signals[1].outcome = "5xx" /\ signals[1].pc = "done"
    /\ signals[2].outcome = "neterr-or-timeout" /\ signals[2].pc = "done"
    /\ isFlushing
    /\ Len(buffer) > 0

\* ---- reconnecting
\* the states of the channel: Connected with an open socket, Connecting
\* while connect() waits for the socket's first event, else Disconnected
Disconnected(W) == ~W.isConnecting /\ ~isOpen(W)

\* fewer than 10 consecutive attempts used and close() not called
MayReconnect(W) == W.built /\ ~W.closed /\ W.reconnectAttempts < 10

\* a socket reports 'close' (it leaves the sockets that can still emit):
\* the channel is Disconnected and the reconnect timer is pending
ReconnectOnClose ==
    (MayReconnect(ws) /\ Len(ws'.sockets) < Len(ws.sockets))
        => /\ Disconnected(ws')
           /\ ws'.ws = 0
           /\ ws'.reconnectTimer

\* `new WebSocket` throws, in the constructor's connect() or in the one the
\* reconnect timer makes: the channel is Disconnected and the reconnect
\* timer is pending
ReconnectOnThrow ==
    LET first == ~ws.built /\ ws'.built /\ ws'.enableWebSocket
        again == /\ ws.built
                 /\ ws'.reconnectAttempts = ws.reconnectAttempts + 1
                 /\ ~ws.isConnecting /\ ~isOpen(ws)
        threw == (first \/ again) /\ ~ws'.isConnecting
    IN  (threw /\ MayReconnect(ws'))
            => Disconnected(ws') /\ ws'.reconnectTimer

\* a socket reports 'error' while connecting or connected: the channel is
\* Disconnected
ErrorDisconnects ==
    (/\ MayReconnect(ws) /\ ~ws'.closed
     /\ \E k \in DOMAIN ws.sockets :
          /\ k \in DOMAIN ws'.sockets
          /\ ws.sockets[k] \in {"CONNECTING", "OPEN"}
          /\ ws'.sockets[k] = "CLOSING")
        => Disconnected(ws')

\* a socket has reported 'error' and not yet 'close'
Errored ==
    /\ MayReconnect(ws)
    /\ \E k \in DOMAIN ws.sockets : ws.sockets[k] = "CLOSING"

\* C32: whenever the socket reports a close or an error, while connecting
\* or while connected, with fewer than 10 consecutive reconnect attempts
\* used and close() not called, the channel becomes Disconnected and a
\* reconnect is scheduled: at once on 'close' and when `new WebSocket`
\* throws, and after 'error' by the 'close' that follows it.
ReconnectOnCloseOrError ==
    /\ [][ReconnectOnClose /\ ReconnectOnThrow /\ ErrorDisconnects]_vars
    /\ (Errored ~> (ws.built /\ (ws.reconnectTimer \/ ws.closed)))

\* after two failed attempts the socket of the third has reported 'close':
\* no socket is left and the timer for the next attempt is pending
ReconnectOnCloseOrErrorWitness ==
    /\ MayReconnect(ws)
    /\ ws.reconnectAttempts = 3
    /\ ws.sockets = <<>>
    /\ Disconnected(ws)
    /\ ws.reconnectTimer

\* the delays of the reconnect scheduled after k = 0..9 failed attempts
BackoffTable ==
    <<1000, 2000, 4000, 8000, 16000, 30000, 30000, 30000, 30000, 30000>>

\* the pending reconnect was scheduled after ws.reconnectAttempts failed
\* attempts and waits for the delay of the table, 30 s at most; no other
\* reconnect timeout is pending
DelayOfPendingReconnect ==
    ws.built =>
        /\ ws.timers <= 1
        /\ ws.reconnectTimer <=> ws.timers = 1
        /\ ws.reconnectTimer =>
             /\ ws.reconnectAttempts \in 0..9
             /\ ws.delay = BackoffTable[ws.reconnectAttempts + 1]
             /\ ws.delay <= 30000

\* C33: the reconnect scheduled after k consecutive failed attempts, k in
\* 0..9, is delayed by min(1000 * 2^k, 30000) ms; the delay never exceeds
\* 30 s; at most one reconnect timer is pending at any time.
ReconnectBackoff ==
    /\ \A k \in 0..9 : reconnectDelay(k) = BackoffTable[k + 1]
    /\ DelayOfPendingReconnect

\* the reconnect after six failed attempts is pending: 2^6 s would be 64 s,
\* the delay is 30 s
ReconnectBackoffWitness ==
    /\ ws.built
    /\ ws.reconnectTimer
    /\ ws.reconnectAttempts = 6
    /\ ws.delay = 30000
    /\ ws.timers = 1

\* --------------------------------------- ErrorTracker.captureError as a call
\* number of captureError() calls in one run
MaxCaptures == 2
\* the deepest nesting of calls the engine's stack holds (about 10^4 frames
\* in Node.js), scaled down
StackLimit == 4

\* a property value: a number, or a reference to object `to` of the graph
Scalar == [t |-> "number"]
Ref(to) == [t |-> "reference", to |-> to]

\* what is thrown to captureError: an Error, a TypeError, or a value with
\* no `constructor` (null, undefined, Object.create(null)), as
\* `throw null` hands to the uncaughtException handler
Thrown == {"Error", "TypeError", "null"}

\* the objects of context.additional, the first being context.additional
\* itself: absent, {id: 7}, {user: {id: 7}}, a = {self: a}, and
\* a = {peer: b}, b = {peer: a}
Graphs ==
    {<<>>,
     << <<Scalar>> >>,
     << <<Ref(2)>>, <<Scalar>> >>,
     << <<Ref(1)>> >>,
     << <<Ref(2)>>, <<Ref(1), Scalar>> >>}

\* sanitizeObject -> sanitizeValue -> sanitizeObject ... on object r of the
\* graph: each object value is entered by one more nested call, with no
\* record of the objects already entered; FALSE when the nesting reaches
\* the limit of the stack (RangeError: Maximum call stack size exceeded)
RECURSIVE sanitizeReturns(_, _, _)
sanitizeReturns(graph, r, depth) ==
    /\ depth < StackLimit
    /\ \A i \in DOMAIN graph[r] :
          graph[r][i].t = "reference"
              => sanitizeReturns(graph, graph[r][i].to, depth + 1)

\* `error.constructor.name || "Error"`: reading `constructor` of null or
\* undefined, or `name` of an undefined constructor, throws a TypeError
typeNameReturns(error) == error # "null"

\* `if (context?.additional) sanitized.additional = this.config.sanitizePII
\*      ? sanitizeObject(context.additional, ...) : context.additional`
sanitizeContextReturns(graph, sanitizePII) ==
    graph # <<>> /\ sanitizePII => sanitizeReturns(graph, 1, 0)

\* captureError(error, context): the statements in their order, none of
\* them inside a try block
captureError(error, graph, sanitizePII) ==
    IF ~typeNameReturns(error) THEN [ended |-> "raised", what |-> "TypeError"]
    ELSE IF ~sanitizeContextReturns(graph, sanitizePII)
    THEN [ended |-> "raised", what |-> "RangeError"]
    ELSE [ended |-> "returned", what |-> "ErrorEvent"]

\* a caller (the facade, a process handler) calls captureError
TrackerCapture ==
    /\ Len(captures) < MaxCaptures
    /\ \E error \in Thrown, graph \in Graphs, sanitizePII \in BOOLEAN :
         captures' = Append(captures,
                            [error |-> error, additional |-> graph,
                             sanitizePII |-> sanitizePII,
                             result |-> captureError(error, graph, sanitizePII)])
    /\ UNCHANGED <<senderVars, sdk, pii, crumbs, ws, fp, signals, run>>

TrackerNext == TrackerCapture

TrackerSpec == Init /\ [][TrackerNext]_vars

\* ---- captureError as a call
\* C34: ErrorTracker.captureError returns an ErrorEvent for every error and
\* context and never raises, also when sanitizing the context or taking the
\* fingerprint fails inside.
CaptureNeverRaises ==
    \A i \in DOMAIN captures : captures[i].result.ended = "returned"

\* captureError returns an event whenever the type name can be read and the
\* sanitizer comes back: for every Error with a context free of cycles, and
\* for every context when config.sanitizePII is off
CaptureReturnsForPlainInput ==
    \A i \in DOMAIN captures :
        LET c == captures[i]
            acyclic == c.additional \in {<<>>, << <<Scalar>> >>,
                                         << <<Ref(2)>>, <<Scalar>> >>}
        IN  (c.error # "null" /\ (acyclic \/ ~c.sanitizePII))
                <=> c.result.ended = "returned"

\* ------------------------------ RootSenseSDK.captureError and its switch
\* (src/unnamed/part_002 197-222, 258-281)  The facade with the parts it
\* hands the error to: the ErrorTracker, the BatchSender and the
\* WebSocketClient.

\* the configs of this part: credentials given, error tracking and the
\* realtime channel switched either way
SwitchConfigs ==
    {c \in Configs : /\ c.dsn = "valid" /\ c.apiKey /\ c.projectId
                     /\ c.enableMetrics = "unset"
                     /\ c.enableAutoInstrumentation = "unset"}

\* `new RootSenseSDK(config)` through init(): the config is normalized and
\* the WebSocketClient is constructed with it
NewSdk ==
    /\ sdk.instance = 0
    /\ \E config \in SwitchConfigs, throws \in BOOLEAN :
         LET env == [ROOTSENSE_API_KEY |-> FALSE, ROOTSENSE_PROJECT_ID |-> FALSE]
             s == init(sdk, config, env, TRUE)
         IN  /\ sdk' = s
             /\ ws' = IF s.config.enableWebSocket
                      THEN connect(Fresh(TRUE), throws)
                      ELSE Fresh(FALSE)
    /\ UNCHANGED <<senderVars, pii, crumbs, fp, signals, captures, run>>

\* RootSenseSDK.captureError(error, context): return at once when error
\* tracking is off; else, in a try block, errorTracker.captureError (which
\* copies the breadcrumbs into the event, or throws), batchSender.addError
\* and, when config.enableWebSocket, websocketClient.sendError; the catch
\* block logs
FacadeCaptureError ==
    /\ sdk.instance # 0
    /\ \E error \in {"Error", "null"}, throws \in BOOLEAN :
         LET guarded == facadeGuard("captureError", sdk.config)
             result == captureError(error, <<>>, TRUE)
             raised == ~guarded /\ result.ended = "raised"
             added == ~guarded /\ result.ended = "returned"
             faults == IF raised THEN {"errorTracker.captureError"} ELSE {}
             call == [error |-> error, additional |-> <<>>,
                      sanitizePII |-> TRUE, result |-> result]
         IN  /\ ~guarded => Len(captures) < MaxCaptures
             /\ added => /\ Len(events) < MaxEvents
                         /\ atCapacity(buffer) => CanCall(Sender)
                         /\ sdk.config.enableWebSocket
                                => Len(ws.offered) < MaxMessages
             /\ sdk' = facade(sdk, "captureError", 200, faults)
             /\ captures' = IF guarded THEN captures
                            ELSE Append(captures, call)
             /\ crumbs' = IF added
                          THEN [crumbs EXCEPT
                                  !.event = snapshotOf(crumbs.breadcrumbs),
                                  !.last = "capture"]
                          ELSE crumbs
             /\ CommitSender(IF added THEN addEvent(Sender) ELSE Sender)
             /\ ws' = IF added /\ sdk.config.enableWebSocket
                      THEN send(ws, "error", Len(events) + 1, throws)
                      ELSE ws
    /\ UNCHANGED <<enableMetrics, flushTimer, shutdown, pii, fp, signals, run>>

\* the facade with its parts: breadcrumbs are added, the socket opens,
\* errors are captured
SwitchNext ==
    \/ NewSdk
    \/ AddBreadcrumb
    \/ \E k \in Sockets : SocketOpen(k)
    \/ FacadeCaptureError

SwitchSpec == Init /\ [][SwitchNext]_vars

\* ---- the error tracking switch
\* with error tracking off nothing has ever been built, buffered or offered
\* to the channel
NothingWhenOff ==
    (sdk.instance # 0 /\ ~sdk.config.enableErrorTracking) =>
        /\ captures = <<>>
        /\ buffer = <<>> /\ events = <<>> /\ tasks = <<>>
        /\ ws.offered = <<>> /\ ws.wire = <<>>
        /\ crumbs.event.ref = "none"

\* a facade call with error tracking off changes nothing but the record of
\* the call
OffLeavesAlone ==
    (sdk.instance # 0 /\ ~sdk.config.enableErrorTracking /\ sdk' # sdk) =>
        /\ sdk'.last.op = "captureError" /\ sdk'.last.done = <<>>
        /\ captures' = captures
        /\ buffer' = buffer /\ isFlushing' = isFlushing
        /\ tasks' = tasks /\ events' = events
        /\ crumbs' = crumbs
        /\ ws' = ws

\* a captureError with error tracking on in which nothing fails inside
\* appends one event, the new one, to the buffer
OnAppendsOne ==
    (/\ Len(captures') = Len(captures) + 1
     /\ captures'[Len(captures')].result.ended = "returned")
        => LET e == Len(events) + 1
           IN  /\ sdk.config.enableErrorTracking
               /\ Len(events') = e
               /\ Len(buffer') >= 1
               /\ buffer'[Len(buffer')] = e
               /\ Cardinality({i \in DOMAIN buffer' : buffer'[i] = e}) = 1
               /\ \A i \in 1..(Len(buffer') - 1) : buffer'[i] \in Range(buffer)

\* C35: with enableErrorTracking false, captureError on the facade builds
\* no event and leaves the batch buffer, the breadcrumb history and the
\* realtime channel unchanged; with it true and no internal failure, each
\* captureError call appends exactly one ErrorEvent to the batch buffer.
ErrorTrackingSwitch ==
    []NothingWhenOff /\ [][OffLeavesAlone /\ OnAppendsOne]_vars

\* error tracking is off, captureError has been called and has returned,
\* with breadcrumbs in the history and the realtime channel connected
ErrorTrackingSwitchOffWitness ==
    /\ sdk.instance # 0
    /\ ~sdk.config.enableErrorTracking
    /\ sdk.last.op = "captureError" /\ sdk.last.result = "returned"
    /\ Len(crumbs.breadcrumbs) = 2
    /\ isOpen(ws)

\* ---- the in-flight guard
\* the guard is set exactly while a flush() call that got past it has not
\* ended
GuardOnlyWhileFlushing == isFlushing <=> Active # {}

\* C36: the in-flight guard is false whenever no flush() call is executing,
\* and every flush that sets it clears it in the end, whatever happens
\* inside it (chunks delivered, rejected with 4xx, dropped after the
\* retries, the metrics snapshot failing): no finished flush blocks a later
\* one.
GuardAlwaysReleased ==
    []GuardOnlyWhileFlushing /\ (isFlushing ~> ~isFlushing)

\* a flush whose only chunk was dropped after the retries has ended, and so
\* has an earlier one: the guard is clear
GuardAlwaysReleasedWitness ==
    /\ ~isFlushing
    /\ \E t \in DOMAIN tasks :
         /\ tasks[t].pc = "done"
         /\ tasks[t].log # <<>>
         /\ tasks[t].log[Len(tasks[t].log)].result = "dropped"

\* ---- a failing metrics snapshot
\* the flush of task t ends because its metrics snapshot failed: it has
\* issued no POST, and the buffer and the events are as they were
FailureKeepsBuffer ==
    \A t \in DOMAIN tasks :
        (tasks[t].pc = "metrics" /\ tasks'[t].pc = "done" /\ ~tasks'[t].snapped)
            => /\ tasks'[t].log = <<>>
               /\ buffer' = buffer
               /\ events' = events

\* a flush that took no snapshot has issued no POST; every accepted event no
\* flush has taken is in the buffer, and the buffer holds the accepted
\* events in the order of their acceptance
UntakenStillPending ==
    /\ \A t \in DOMAIN tasks : ~tasks[t].snapped => tasks[t].log = <<>>
    /\ \A e \in DOMAIN events : events[e].snapBy = <<>> => e \in Range(buffer)
    /\ InAcceptOrder(HostEvents(buffer))

\* a flush that takes its snapshot takes the whole buffer, in its order
SnapshotTakesBuffer ==
    \A t \in DOMAIN tasks' :
        (tasks'[t].snapped /\ (t \in DOMAIN tasks => ~tasks[t].snapped))
            => /\ Len(tasks'[t].toSend) >= Len(buffer)
               /\ SubSeq(tasks'[t].toSend, 1, Len(buffer)) = buffer

\* when a flush that took its snapshot has ended, every event of the
\* snapshot has been in the body of a POST
SnapshotIsSent ==
    \A t \in DOMAIN tasks :
        (tasks[t].pc = "done" /\ tasks[t].snapped)
            => \A e \in Range(tasks[t].toSend) :
                  e > 0 => events[e].posts >= 1

LaterChunksStillSent ==
    \A t \in DOMAIN tasks :
        LET log == tasks[t].log
        IN  /\ \A i \in DOMAIN log :
                  /\ (log[i].result \in {"rejected", "dropped"}
                        /\ i < Len(tasks[t].batches))
                       => /\ Len(log) > i
                          /\ log[i + 1].body = tasks[t].batches[i + 1]
                          /\ log[i + 1].posts >= 1
                  /\ log[i].posts <= retryAttempts
                  /\ log[i].result = "dropped" => log[i].posts = retryAttempts
            /\ (tasks[t].pc = "done" /\ log # <<>>)
                  => Len(log) = Len(tasks[t].batches)

\* a chunk ending rejected or dropped does not end the flush while a chunk
\* is left: the flush goes on to the first POST of the next chunk
FailedChunkGoesOn ==
    \A t \in DOMAIN tasks :
        LET i == tasks[t].bi
        IN  (/\ tasks[t].pc \in {"post", "backoff"}
             /\ tasks'[t].log[i].result \in {"rejected", "dropped"}
             /\ i < Len(tasks[t].batches))
                => /\ tasks'[t].pc = "post"
                   /\ tasks'[t].bi = i + 1
                   /\ tasks'[t].attempt = 0
                   /\ tasks'[t].log[i + 1].posts = 1

\* C38: within one flush, a chunk being rejected (4xx) or dropped after its
\* retries does not abort the flush: every later chunk of the snapshot
\* still gets its first POST and its own retryAttempts attempts.
ChunksFailIndependently ==
    []LaterChunksStillSent /\ [][FailedChunkGoesOn]_vars

\* the first chunk of a flush was rejected with a 4xx on its first POST,
\* and the second chunk was then POSTed retryAttempts times and dropped
ChunksFailIndependentlyWitness ==
    \E t \in DOMAIN tasks :
        /\ Len(tasks[t].log) = 2
        /\ tasks[t].log[1].result = "rejected"
        /\ tasks[t].log[1].posts = 1
        /\ tasks[t].log[2].result = "dropped"
        /\ tasks[t].log[2].posts = retryAttempts
        /\ tasks[t].pc = "done"

\* ---- after shutdown
\* C39: once the promise returned by shutdown() has resolved, no flush is in
\* progress (so none is about to POST) and the periodic timer is not armed.
QuiescentAfterShutdown ==
    ShutdownPromise = "resolved" =>
        /\ ~isFlushing
        /\ Active = {}
        /\ ~flushTimer

\* shutdown() does clear the timer, which nothing arms again
TimerOffAfterShutdown == shutdown.called => ~flushTimer

\* ------------------------------- one flush under a config as it is given
\* (batch-sender.ts 94-98, 146-152, 163-209; utils/config.ts 94-127)
\* normalizeConfig spreads the caller's config over the defaults and checks
\* the credentials only, so batchSize and retryAttempts reach the sender as
\* the caller wrote them.  The loops of one flush are followed iteration by
\* iteration, since whether they end is the question.

\* largest snapshot a flush of this part takes
MaxSnapshot == 2

\* values of config.batchSize and config.retryAttempts a caller may write
ConfiguredBatchSizes == -1..2
ConfiguredRetryAttempts == 0..2

Max(a, b) == IF a > b THEN a ELSE b

\* sendWithRetry: `attempt < this.config.retryAttempts`
attemptLeft(attempt, attempts) == attempt < attempts

\* sendWithRetry: `attempt < this.config.retryAttempts - 1`
waitFirst(attempt, attempts) == attempt < attempts - 1

\* `for (const batch of batches) await this.sendBatch(batch)` at chunk k:
\* with no chunk left flush ends; else sendWithRetry enters its loop at
\* attempt 0, and issues a POST or, the loop test failing, returns
RECURSIVE sendChunk(_, _)
sendChunk(R, k) ==
    IF k > R.chunks THEN [R EXCEPT !.pc = "done"]
    ELSE IF attemptLeft(0, R.retryAttempts)
    THEN [R EXCEPT !.pc = "post", !.chunk = k, !.attempt = 0]
    ELSE sendChunk(R, k + 1)

\* the catch block of sendWithRetry, then `attempt++` and the loop test
afterAttempt(R) ==
    IF waitFirst(R.attempt, R.retryAttempts) THEN [R EXCEPT !.pc = "backoff"]
    ELSE IF attemptLeft(R.attempt + 1, R.retryAttempts)
    THEN [R EXCEPT !.pc = "post", !.attempt = @ + 1]
    ELSE sendChunk(R, R.chunk + 1)

\* flush() takes a snapshot of n events and calls chunkArray(toSend,
\* batchSize): `const chunks = []; for (let i = 0; ...`
BeginFlush ==
    /\ run.pc = "idle"
    /\ \E size \in ConfiguredBatchSizes, attempts \in ConfiguredRetryAttempts,
          n \in 1..MaxSnapshot :
         run' = [pc |-> "chunking", batchSize |-> size,
                 retryAttempts |-> attempts, n |-> n, i |-> 0, chunks |-> 0,
                 parity |-> 0, chunk |-> 0, attempt |-> 0]
    /\ UNCHANGED <<senderVars, sdk, pii, crumbs, ws, fp, signals, captures>>

\* one iteration of chunkArray's loop: `i < array.length`, push a slice,
\* `i += size`.  The model stops counting where more does not matter: i at
\* -1 (every negative i passes the test alike) and the number of chunks at
\* n + 1 (more chunks than events), and keeps the parity of the number of
\* iterations made
ChunkIteration ==
    /\ run.pc = "chunking"
    /\ run.i < run.n
    /\ run' = [run EXCEPT !.i = Max(@ + run.batchSize, -1),
                          !.chunks = Min(@ + 1, run.n + 1),
                          !.parity = (@ + 1) % 2]
    /\ UNCHANGED <<senderVars, sdk, pii, crumbs, ws, fp, signals, captures>>

\* chunkArray's loop test fails: it returns the chunks and the send loop
\* starts
ChunkReturn ==
    /\ run.pc = "chunking"
    /\ ~(run.i < run.n)
    /\ run' = sendChunk(run, 1)
    /\ UNCHANGED <<senderVars, sdk, pii, crumbs, ws, fp, signals, captures>>

\* the pending fetch() settles, within config.timeout
AttemptSettles ==
    /\ run.pc = "post"
    /\ \E o \in Outcomes :
         run' = IF o \in Rejections THEN afterAttempt(run)
                ELSE IF isSuccess(o) THEN sendChunk(run, run.chunk + 1)
                ELSE IF isClientError(o) /\ ~bodyReadFails(o)
                THEN sendChunk(run, run.chunk + 1)
                ELSE afterAttempt(run)
    /\ UNCHANGED <<senderVars, sdk, pii, crumbs, ws, fp, signals, captures>>

\* the backoff setTimeout fires: `attempt++`, loop test
BackoffFires ==
    /\ run.pc = "backoff"
    /\ run' = IF attemptLeft(run.attempt + 1, run.retryAttempts)
              THEN [run EXCEPT !.pc = "post", !.attempt = @ + 1]
              ELSE sendChunk(run, run.chunk + 1)
    /\ UNCHANGED <<senderVars, sdk, pii, crumbs, ws, fp, signals, captures>>

\* the flush has ended; the next one starts from scratch
EndFlush ==
    /\ run.pc = "done"
    /\ run' = [pc |-> "idle"]
    /\ UNCHANGED <<senderVars, sdk, pii, crumbs, ws, fp, signals, captures>>

TerminationNext ==
    \/ BeginFlush
    \/ ChunkIteration
    \/ ChunkReturn
    \/ AttemptSettles
    \/ BackoffFires
    \/ EndFlush

\* the thread runs the loop it is in; every fetch settles within its
\* timeout; every backoff timer fires
TerminationFairness ==
    /\ WF_vars(ChunkIteration)
    /\ WF_vars(ChunkReturn)
    /\ WF_vars(AttemptSettles)
    /\ WF_vars(BackoffFires)

TerminationSpec == Init /\ [][TerminationNext]_vars /\ TerminationFairness

\* ---- flush termination
\* C40: every flush() call completes in the end, for every configured value
\* of batchSize and retryAttempts, provided every HTTP attempt ends within
\* its timeout.
FlushTerminates == (run.pc # "idle") ~> (run.pc = "done")

\* with a batchSize of at least 1 it does, for every retryAttempts
FlushTerminatesForPositiveBatchSize ==
    (run.pc # "idle" /\ run.batchSize >= 1) ~> (run.pc = "done")

====
